---- MODULE Spec2Model ----
(***************************************************************************)
(* A model of the uefi_decompress crate: the stream framer                 *)
(* (decompress_into_with_algo), the code iterator (CodeIterator) with its  *)
(* bit reader, the length-array decoders, the position decoder and the     *)
(* canonical Huffman table builder.  Arrays are functions over 0..n-1 as   *)
(* in the source; u8/u16 arithmetic keeps its width.                        *)
(***************************************************************************)
EXTENDS Integers, Sequences, FiniteSets, TLC

\* ------------------------------------------------------------------------
\* Program constants (src/uefi_decompress/src/lib.rs:93-105)
NC == 510
CBIT == 9
CTABLE_BITSIZE == 12
NT == 19
TBIT == 5
PTABLE_BITSIZE == 8
MAXNP == 31
NPT == IF NT < MAXNP THEN MAXNP ELSE NT
\* length of the left and right arrays, 2 * NC - 1
NODES == 2 * NC - 1
\* u8 and u16 moduli
U8 == 256
U16 == 65536

RECURSIVE Pow2(_)
Pow2(n) == IF n = 0 THEN 1 ELSE 2 * Pow2(n - 1)

Shl16(x, n) == (x * Pow2(n)) % U16
Shr(x, n) == x \div Pow2(n)
Min(a, b) == IF a < b THEN a ELSE b

\* let r = e; K(r): the value of e is computed once and handed on
Then(e, K(_)) == CHOOSE y \in {K(r) : r \in {e}} : TRUE

\* Result values
Ok(it, val) == [st |-> "Ok", it |-> it, val |-> val]
Err(it, e) == [st |-> e, it |-> it, val |-> 0]

\* ------------------------------------------------------------------------
\* CodeIterator::build_huffman_table (lib.rs:454-600)

\* TablePointer (lib.rs:509-530): a place in table, left or right.
TablePointer(kind, idx) == [kind |-> kind, idx |-> idx]

PtrGet(p, s) ==
    CASE p.kind = "Table" -> s.table[p.idx]
      [] p.kind = "Left" -> s.left[p.idx]
      [] p.kind = "Right" -> s.right[p.idx]

PtrSet(p, s, val) ==
    CASE p.kind = "Table" -> [s EXCEPT !.table[p.idx] = val]
      [] p.kind = "Left" -> [s EXCEPT !.left[p.idx] = val]
      [] p.kind = "Right" -> [s EXCEPT !.right[p.idx] = val]

\* lib.rs:465-471: count[len] = number of symbols of each bit length.
HuffCount(num_symbols, bit_lengths) ==
    [l \in 0..16 |-> Cardinality({i \in 0..(num_symbols - 1) : bit_lengths[i] = l})]

\* lib.rs:475-480: start[idx + 1] = start[idx] wrapping_add (count[idx] << (16 - idx)),
\* all in u16.
RECURSIVE HuffStart(_, _)
HuffStart(count, idx) ==
    IF idx <= 1 THEN 0
    ELSE (HuffStart(count, idx - 1) + Shl16(count[idx - 1], 16 - (idx - 1))) % U16

\* lib.rs:489-497: the number of table entries (or of 16-bit codes) one symbol of
\* each length takes.
HuffWeight(table_bits) ==
    [idx \in 0..16 |-> IF idx = 0 THEN 0
                       ELSE IF idx <= table_bits THEN Pow2(table_bits - idx)
                       ELSE Pow2(16 - idx)]

\* lib.rs:573-591: walk (and extend) the secondary tree along the code's bits
\* past table_bits.
\* lib.rs:574-579: a new node where the pointer holds none
HuffNewNode(s, pointer, n) ==
    IF PtrGet(pointer, s) = 0 /\ n < NODES
    THEN [PtrSet(pointer, s, n) EXCEPT !.right[n] = 0, !.left[n] = 0,
                                        !.next_avail_node = n + 1]
    ELSE s

\* HuffDescend with the two branches exchanged
HuffDescendSwapped(pointer, g, bit) ==
    IF g < NODES
    THEN IF bit = 1 THEN TablePointer("Left", g) ELSE TablePointer("Right", g)
    ELSE pointer

\* lib.rs:581-587: the pointer moves to the right or left entry of the node
HuffDescend(pointer, g, bit) ==
    IF g < NODES
    THEN IF bit = 1 THEN TablePointer("Right", g) ELSE TablePointer("Left", g)
    ELSE pointer

RECURSIVE HuffWalk(_, _, _, _, _)
HuffWalkOn(s1, pointer, symbol_bitstring, idx, mask) ==
    Then(HuffDescend(pointer, PtrGet(pointer, s1), (symbol_bitstring \div mask) % 2),
         LAMBDA p : HuffWalk(s1, p, Shl16(symbol_bitstring, 1), idx - 1, mask))

HuffWalk(s, pointer, symbol_bitstring, idx, mask) ==
    IF idx = 0 THEN [s |-> s, pointer |-> pointer]
    ELSE Then(HuffNewNode(s, pointer, s.next_avail_node),
              LAMBDA s1 : HuffWalkOn(s1, pointer, symbol_bitstring, idx, mask))

\* lib.rs:554-565: a symbol no longer than table_bits fills the table entries
\* it is a prefix of.
\* the entries lo..hi-1 of an array set to one value (lib.rs:501-505, 559-563;
\* slice fill, lib.rs:222, 230, 329, 347)
HuffFillRange(table, lo, hi, char) ==
    CHOOSE filled \in {[i \in DOMAIN t |-> IF l <= i /\ i < h THEN c ELSE t[i]] :
                          t \in {table}, l \in {lo}, h \in {hi}, c \in {char}} : TRUE

HuffFillShort(s, char, sym_bit_len, next_code, table_bits) ==
    IF s.start[sym_bit_len] >= next_code \/ next_code > Pow2(table_bits)
    THEN [s EXCEPT !.st = "MalformedSrcData"]
    ELSE [s EXCEPT !.table = HuffFillRange(s.table, s.start[sym_bit_len], next_code, char),
                   !.start[sym_bit_len] = next_code]

\* lib.rs:566-594: a longer symbol is placed in the secondary tree.
HuffSetLeaf(w, char, sym_bit_len, next_code) ==
    [PtrSet(w.pointer, w.s, char) EXCEPT !.start[sym_bit_len] = next_code]

HuffFillLong(s, char, sym_bit_len, next_code, table_bits) ==
    Then(HuffWalk(s, TablePointer("Table", Shr(s.start[sym_bit_len], 16 - table_bits)),
                  s.start[sym_bit_len], sym_bit_len - table_bits, Pow2(15 - table_bits)),
         LAMBDA w : HuffSetLeaf(w, char, sym_bit_len, next_code))

\* lib.rs:538-598: the body of the loop over the symbols, for one symbol.
HuffFillOne(char, bit_lengths, table_bits, s) ==
    LET sym_bit_len == bit_lengths[char]
        next_code == (s.start[sym_bit_len] + HuffWeight(table_bits)[sym_bit_len]) % U16
    IN IF s.st # "Ok" \/ sym_bit_len = 0 THEN s
       ELSE IF sym_bit_len > 16 THEN [s EXCEPT !.st = "MalformedSrcData"]
       ELSE IF sym_bit_len <= table_bits
       THEN HuffFillShort(s, char, sym_bit_len, next_code, table_bits)
       ELSE HuffFillLong(s, char, sym_bit_len, next_code, table_bits)

\* lib.rs:538: the loop itself, symbols lo..hi-1 in increasing order (the range
\* is halved so that the evaluation stays shallow; the order is the loop's).
RECURSIVE HuffFill(_, _, _, _, _)
HuffFill(lo, hi, bit_lengths, table_bits, s) ==
    IF lo >= hi \/ s.st # "Ok" THEN s
    ELSE IF hi = lo + 1 THEN Then(s, LAMBDA m : HuffFillOne(lo, bit_lengths, table_bits, m))
    ELSE Then(HuffFill(lo, (lo + hi) \div 2, bit_lengths, table_bits, s),
              LAMBDA m : HuffFill((lo + hi) \div 2, hi, bit_lengths, table_bits, m))

\* lib.rs:499-506: zero the table entries past the codes no longer than table_bits.
HuffZeroUnused(table, start17, table_bits) ==
    LET idx == Shr(start17[table_bits + 1], 16 - table_bits)
    IN IF idx # 0 /\ idx < Pow2(table_bits)
       THEN HuffFillRange(table, idx, Pow2(table_bits), 0)
       ELSE table

\* lib.rs:475-480: the array start, indices 1..17 (index 0 is not used)
HuffStarts(num_symbols, bit_lengths) ==
    Then(HuffCount(num_symbols, bit_lengths),
         LAMBDA count : [idx \in 0..17 |-> HuffStart(count, idx)])

\* lib.rs:490-493: start[1..=table_bits] shifted down to table indices
HuffShiftStarts(start17, table_bits) ==
    [idx \in 0..17 |-> IF 1 <= idx /\ idx <= table_bits
                       THEN Shr(start17[idx], 16 - table_bits) ELSE start17[idx]]

HuffResult(s) == [st |-> s.st, table |-> s.table, left |-> s.left, right |-> s.right]

\* lib.rs:481-599: the check of start[17], then the tables
HuffBuild(num_symbols, bit_lengths, table_bits, table, left, right, start17) ==
    IF start17[17] # 0
    THEN [st |-> "MalformedSrcData", table |-> table, left |-> left, right |-> right]
    ELSE Then([st |-> "Ok",
               start |-> HuffShiftStarts(start17, table_bits),
               table |-> HuffZeroUnused(table, start17, table_bits),
               left |-> left, right |-> right,
               next_avail_node |-> num_symbols],
              LAMBDA s0 : Then(HuffFill(0, num_symbols, bit_lengths, table_bits, s0),
                               HuffResult))

\* The whole routine: [st, table, left, right].
BuildHuffmanTable(num_symbols, bit_lengths, table_bits, table, left, right) ==
    IF \E i \in 0..(num_symbols - 1) : bit_lengths[i] > 16
    THEN [st |-> "MalformedSrcData", table |-> table, left |-> left, right |-> right]
    ELSE Then(HuffStarts(num_symbols, bit_lengths),
              LAMBDA start17 : HuffBuild(num_symbols, bit_lengths, table_bits,
                                         table, left, right, start17))

\* ------------------------------------------------------------------------
\* The bit reader over src.view_bits::<Msb0>() (lib.rs:123-159)

\* bit i of the byte sequence, most significant bit of each byte first
BitOf(bytes, i) == (bytes[(i \div 8) + 1] \div Pow2(7 - (i % 8))) % 2

\* load_be of the bits index .. index + count - 1
RECURSIVE LoadBe(_, _, _)
LoadBe(bytes, index, count) ==
    IF count = 0 THEN 0
    ELSE 2 * LoadBe(bytes, index, count - 1) + BitOf(bytes, index + count - 1)

TotalBits(it) == 8 * Len(it.src)

\* CodeIterator::new
NewCodeIterator(payload, algo) ==
    [src |-> payload,
     src_index |-> 0,
     is_error |-> FALSE,
     remaining_block_size |-> 0,
     left |-> [i \in 0..(NODES - 1) |-> 0],
     right |-> [i \in 0..(NODES - 1) |-> 0],
     c_len |-> [i \in 0..(NC - 1) |-> 0],
     pt_len |-> [i \in 0..(NPT - 1) |-> 0],
     c_table |-> [i \in 0..(Pow2(CTABLE_BITSIZE) - 1) |-> 0],
     pt_table |-> [i \in 0..(Pow2(PTABLE_BITSIZE) - 1) |-> 0],
     p_bit |-> IF algo = "UefiDecompress" THEN 4 ELSE 5]

\* PopBits that wants one bit more than it takes
PopBitsStrict(it, count) ==
    IF it.src_index + count < TotalBits(it)
    THEN Ok([it EXCEPT !.src_index = @ + count], LoadBe(it.src, it.src_index, count))
    ELSE Err(it, "MalformedSrcData")

\* pop_bits: the value of the next count bits, the cursor advanced
PopBits(it, count) ==
    IF it.src_index + count <= TotalBits(it)
    THEN Ok([it EXCEPT !.src_index = @ + count], LoadBe(it.src, it.src_index, count))
    ELSE Err(it, "MalformedSrcData")

\* peek_bits that reads zeros past the end of the source
PeekBitsPadded(it, count) ==
    IF it.src_index + count <= TotalBits(it)
    THEN Ok(it, LoadBe(it.src, it.src_index, count))
    ELSE Ok(it, LoadBe(it.src \o <<0, 0>>, it.src_index, count))

\* peek_bits: the same without advancing
PeekBits(it, count) ==
    IF it.src_index + count <= TotalBits(it)
    THEN Ok(it, LoadBe(it.src, it.src_index, count))
    ELSE Err(it, "MalformedSrcData")

\* peek_bits(mask_idx + 1)?[mask_idx]: the bit mask_idx places past the cursor
PeekBitAt(it, mask_idx) ==
    IF it.src_index + mask_idx + 1 <= TotalBits(it)
    THEN Ok(it, BitOf(it.src, it.src_index + mask_idx))
    ELSE Err(it, "MalformedSrcData")

\* ------------------------------------------------------------------------
\* Symbol lookup: the fixed table on the leading table_bits bits, then the
\* left/right walk while the value is not below limit (lib.rs:292-310,
\* 378-400, 644-675).  Loop states are [st, it, val, mask_idx, done].
\* An operator named X_ continues X with the result of the call X made.

WalkNode(s, r) == IF r.val = 1 THEN s.it.right[s.val] ELSE s.it.left[s.val]

WalkStep_(s, r, limit) ==
    IF r.st # "Ok" THEN [s EXCEPT !.st = r.st, !.done = TRUE]
    ELSE IF s.val >= NODES THEN [s EXCEPT !.st = "Panic", !.done = TRUE]
    ELSE [s EXCEPT !.val = WalkNode(s, r), !.mask_idx = @ + 1,
                   !.done = WalkNode(s, r) < limit]

WalkStep(s, limit) ==
    Then(PeekBitAt(s.it, s.mask_idx), LAMBDA r : WalkStep_(s, r, limit))

RECURSIVE WalkLoop(_, _, _)
WalkLoop(s, fuel, limit) ==
    IF s.done \/ fuel = 0 THEN s
    ELSE IF fuel = 1 THEN WalkStep(s, limit)
    ELSE Then(WalkLoop(s, fuel \div 2, limit),
              LAMBDA m : WalkLoop(m, fuel - (fuel \div 2), limit))

\* a loop the bound of the evaluation has cut short would still be running
Ended(s) == IF s.done THEN s.st ELSE "Diverges"

WalkResult(it, w) == [st |-> Ended(w), it |-> it, val |-> w.val]

DecodeSymbol_(it, r, table, table_bits, limit) ==
    IF r.st # "Ok" THEN r
    ELSE IF table[r.val] >= limit
    THEN Then(WalkLoop([st |-> "Ok", it |-> it, val |-> table[r.val],
                        mask_idx |-> table_bits, done |-> FALSE],
                       TotalBits(it) - it.src_index + 1, limit),
              LAMBDA w : WalkResult(it, w))
    ELSE Ok(it, table[r.val])

DecodeSymbol(it, table, table_bits, limit) ==
    Then(PeekBits(it, table_bits),
         LAMBDA r : DecodeSymbol_(it, r, table, table_bits, limit))

\* ------------------------------------------------------------------------
\* CodeIterator::read_pt_len (lib.rs:187-242).  checks = the build traps
\* integer overflow (a panic); otherwise u8 arithmetic wraps.

\* lib.rs:205-213: each 1-bit adds one to code_len, up to the first 0-bit.
\* Loop states are [st, it, val, done].
OnesStep_(s, r, checks) ==
    IF r.st # "Ok" THEN [st |-> r.st, it |-> r.it, val |-> s.val, done |-> TRUE]
    ELSE IF r.val = 0 THEN [st |-> "Ok", it |-> r.it, val |-> s.val, done |-> TRUE]
    ELSE IF s.val + 1 >= U8 /\ checks
    THEN [st |-> "Panic", it |-> r.it, val |-> s.val, done |-> TRUE]
    ELSE [st |-> "Ok", it |-> r.it, val |-> (s.val + 1) % U8, done |-> FALSE]

OnesStep(s, checks) == Then(PopBits(s.it, 1), LAMBDA r : OnesStep_(s, r, checks))

RECURSIVE OnesLoop(_, _, _)
OnesLoop(s, fuel, checks) ==
    IF s.done \/ fuel = 0 THEN s
    ELSE IF fuel = 1 THEN OnesStep(s, checks)
    ELSE Then(OnesLoop(s, fuel \div 2, checks),
              LAMBDA m : OnesLoop(m, fuel - (fuel \div 2), checks))

OnesResult(s) == [st |-> Ended(s), it |-> s.it, val |-> s.val]

\* lib.rs:203-214: one code length
ReadCodeLen_(r, checks) ==
    IF r.st # "Ok" THEN r
    ELSE IF r.val = 7
    THEN Then(OnesLoop([st |-> "Ok", it |-> r.it, val |-> 7, done |-> FALSE],
                       TotalBits(r.it) - r.it.src_index + 1, checks),
              OnesResult)
    ELSE r

ReadCodeLen(it, checks) == Then(PopBits(it, 3), LAMBDA r : ReadCodeLen_(r, checks))

\* fill(0) of a[lo..hi]
ZeroRange(a, lo, hi) == HuffFillRange(a, lo, hi, 0)

\* lib.rs:220-224: the zero run after the third length of the Extra Set
PtLenExtra_(z, idx) ==
    IF z.st # "Ok" THEN [st |-> z.st, it |-> z.it, idx |-> idx, done |-> TRUE]
    ELSE [st |-> "Ok",
          it |-> [z.it EXCEPT !.pt_len = ZeroRange(z.it.pt_len, idx, idx + z.val)],
          idx |-> idx + z.val, done |-> FALSE]

\* lib.rs:215-224: the length is stored, the index advances
PtLenStep_(s, r, extra) ==
    IF r.st # "Ok" THEN [st |-> r.st, it |-> r.it, idx |-> s.idx, done |-> TRUE]
    ELSE IF extra /\ s.idx + 1 = 3
    THEN Then(PopBits([r.it EXCEPT !.pt_len[s.idx] = r.val], 2),
              LAMBDA z : PtLenExtra_(z, s.idx + 1))
    ELSE [st |-> "Ok", it |-> [r.it EXCEPT !.pt_len[s.idx] = r.val],
          idx |-> s.idx + 1, done |-> FALSE]

\* lib.rs:200-225: one iteration of the while loop.  Loop states are
\* [st, it, idx, done].
PtLenStep(s, count, extra, checks) ==
    IF ~(s.idx < count /\ s.idx < NPT) THEN [s EXCEPT !.done = TRUE]
    ELSE Then(ReadCodeLen(s.it, checks), LAMBDA r : PtLenStep_(s, r, extra))

RECURSIVE PtLenLoop(_, _, _, _, _)
PtLenLoop(s, fuel, count, extra, checks) ==
    IF s.done \/ fuel = 0 THEN s
    ELSE IF fuel = 1 THEN PtLenStep(s, count, extra, checks)
    ELSE Then(PtLenLoop(s, fuel \div 2, count, extra, checks),
              LAMBDA m : PtLenLoop(m, fuel - (fuel \div 2), count, extra, checks))

\* lib.rs:233-240 and 350-357: the table of the lengths just read
BuildPtTable_(it, b) ==
    [st |-> b.st, val |-> 0,
     it |-> [it EXCEPT !.pt_table = b.table, !.left = b.left, !.right = b.right]]

BuildPtTable(it, num_symbols) ==
    Then(BuildHuffmanTable(num_symbols, it.pt_len, PTABLE_BITSIZE,
                           it.pt_table, it.left, it.right),
         LAMBDA b : BuildPtTable_(it, b))

BuildCTable_(it, b) ==
    [st |-> b.st, val |-> 0,
     it |-> [it EXCEPT !.c_table = b.table, !.left = b.left, !.right = b.right]]

BuildCTable(it) ==
    Then(BuildHuffmanTable(NC, it.c_len, CTABLE_BITSIZE,
                           it.c_table, it.left, it.right),
         LAMBDA b : BuildCTable_(it, b))

\* lib.rs:192-197: count 0, the one symbol of the set
PtLenSingle_(char_c, num_symbols) ==
    IF char_c.st # "Ok" THEN char_c
    ELSE Ok([char_c.it EXCEPT
                !.pt_table = [i \in DOMAIN char_c.it.pt_table |-> char_c.val],
                !.pt_len = ZeroRange(char_c.it.pt_len, 0, num_symbols)],
            0)

\* lib.rs:226-240: after the loop
PtLenFinish_(l, num_symbols) ==
    IF Ended(l) # "Ok" THEN Err(l.it, Ended(l))
    ELSE IF l.idx > num_symbols THEN Err(l.it, "MalformedSrcData")
    ELSE Then([l.it EXCEPT !.pt_len = ZeroRange(l.it.pt_len, l.idx, num_symbols)],
              LAMBDA it : BuildPtTable(it, num_symbols))

ReadPtLen_(c, num_symbols, num_bits, extra, checks) ==
    IF c.st # "Ok" THEN c
    ELSE IF c.val = 0
    THEN Then(PopBits(c.it, num_bits), LAMBDA char_c : PtLenSingle_(char_c, num_symbols))
    ELSE Then(PtLenLoop([st |-> "Ok", it |-> c.it, idx |-> 0, done |-> FALSE],
                        NPT + 1, c.val, extra, checks),
              LAMBDA l : PtLenFinish_(l, num_symbols))

ReadPtLen(it, num_symbols, num_bits, extra, checks) ==
    Then(PopBits(it, num_bits),
         LAMBDA c : ReadPtLen_(c, num_symbols, num_bits, extra, checks))

\* ------------------------------------------------------------------------
\* CodeIterator::read_c_len (lib.rs:277-359)

Plus(q, n) == IF q.st # "Ok" THEN q ELSE Ok(q.it, q.val + n)

\* ZeroRun with the run of symbol 1 one shorter
ZeroRunShort(it, symbol) ==
    IF symbol = 0 THEN Ok(it, 1)
    ELSE IF symbol = 1 THEN Then(PopBits(it, 4), LAMBDA q : Plus(q, 2))
    ELSE Then(PopBits(it, CBIT), LAMBDA q : Plus(q, 20))

\* lib.rs:315-326: the number of zero lengths an Extra Set symbol 0, 1 or 2 stands for
ZeroRun(it, symbol) ==
    IF symbol = 0 THEN Ok(it, 1)
    ELSE IF symbol = 1 THEN Then(PopBits(it, 4), LAMBDA q : Plus(q, 3))
    ELSE Then(PopBits(it, CBIT), LAMBDA q : Plus(q, 20))

\* lib.rs:330-336: z.val zero lengths from idx on, an error past the end
CLenZeros_(z, idx) ==
    IF z.st # "Ok" THEN [st |-> z.st, it |-> z.it, idx |-> idx, done |-> TRUE]
    ELSE [st |-> IF idx + z.val > NC THEN "MalformedSrcData" ELSE "Ok",
          it |-> [z.it EXCEPT !.c_len = ZeroRange(z.it.c_len, idx, idx + z.val)],
          idx |-> Min(idx + z.val, NC),
          done |-> idx + z.val > NC]

\* lib.rs:315-344: what the Extra Set symbol stands for
CLenEntry_(p, symbol, idx) ==
    IF p.st # "Ok" THEN [st |-> p.st, it |-> p.it, idx |-> idx, done |-> TRUE]
    ELSE IF symbol <= 2 THEN Then(ZeroRun(p.it, symbol), LAMBDA z : CLenZeros_(z, idx))
    ELSE IF idx >= NC
    THEN [st |-> "MalformedSrcData", it |-> p.it, idx |-> idx, done |-> TRUE]
    ELSE [st |-> "Ok", it |-> [p.it EXCEPT !.c_len[idx] = symbol - 2],
          idx |-> idx + 1, done |-> FALSE]

\* lib.rs:313: the cursor advances by the length of the symbol's code
CLenStep_(d, idx) ==
    IF d.st # "Ok" THEN [st |-> d.st, it |-> d.it, idx |-> idx, done |-> TRUE]
    ELSE Then(PopBits(d.it, d.it.pt_len[d.val]), LAMBDA p : CLenEntry_(p, d.val, idx))

\* lib.rs:290-345: one iteration of the while loop.  Loop states are
\* [st, it, idx, done].
CLenStep(s, count) ==
    IF ~(s.idx < count) THEN [s EXCEPT !.done = TRUE]
    ELSE Then(DecodeSymbol(s.it, s.it.pt_table, PTABLE_BITSIZE, NT),
              LAMBDA d : CLenStep_(d, s.idx))

RECURSIVE CLenLoop(_, _, _)
CLenLoop(s, fuel, count) ==
    IF s.done \/ fuel = 0 THEN s
    ELSE IF fuel = 1 THEN CLenStep(s, count)
    ELSE Then(CLenLoop(s, fuel \div 2, count),
              LAMBDA m : CLenLoop(m, fuel - (fuel \div 2), count))

\* lib.rs:281-286: count 0, the one symbol of the set
CLenSingle_(symbol) ==
    IF symbol.st # "Ok" THEN symbol
    ELSE Ok([symbol.it EXCEPT
                !.c_len = [i \in DOMAIN symbol.it.c_len |-> 0],
                !.c_table = [i \in DOMAIN symbol.it.c_table |-> symbol.val]],
            0)

\* lib.rs:346-357: after the loop
CLenFinish_(l) ==
    IF Ended(l) # "Ok" THEN Err(l.it, Ended(l))
    ELSE Then([l.it EXCEPT !.c_len = ZeroRange(l.it.c_len, l.idx, NC)], BuildCTable)

ReadCLen_(c) ==
    IF c.st # "Ok" THEN c
    ELSE IF c.val = 0 THEN Then(PopBits(c.it, CBIT), CLenSingle_)
    ELSE Then(CLenLoop([st |-> "Ok", it |-> c.it, idx |-> 0, done |-> FALSE],
                       Pow2(CBIT) + 1, c.val),
              CLenFinish_)

ReadCLen(it) == Then(PopBits(it, CBIT), ReadCLen_)

\* ------------------------------------------------------------------------
\* CodeIterator::decode_position (lib.rs:376-410)

\* lib.rs:404-409
PositionValue_(p, val) ==
    IF p.st # "Ok" THEN p
    ELSE IF val > 1 THEN Then(PopBits(p.it, val - 1), LAMBDA q : Plus(q, Pow2(val - 1)))
    ELSE Ok(p.it, val)

\* DecodePosition_ with the cursor advanced by the width of the table
DecodePositionWide_(d) ==
    IF d.st # "Ok" THEN d
    ELSE Then(PopBits(d.it, PTABLE_BITSIZE), LAMBDA p : PositionValue_(p, d.val))

\* lib.rs:401
DecodePosition_(d) ==
    IF d.st # "Ok" THEN d
    ELSE Then(PopBits(d.it, d.it.pt_len[d.val]), LAMBDA p : PositionValue_(p, d.val))

DecodePosition(it) ==
    Then(DecodeSymbol(it, it.pt_table, PTABLE_BITSIZE, MAXNP), DecodePosition_)

\* ------------------------------------------------------------------------
\* CodeSymbol (lib.rs:85-88)
OrigChar(char) == [kind |-> "OrigChar", char |-> char, offset |-> 0, len |-> 0]
StrPointer(offset, len) == [kind |-> "StrPointer", char |-> 0, offset |-> offset, len |-> len]
NoSymbol == [kind |-> "None", char |-> 0, offset |-> 0, len |-> 0]

\* What 0 - 1 wraps to when overflow is not trapped.  usize::MAX itself is
\* past the integers of the model checker; the value is only ever decremented
\* and compared with 0, so the largest representable integer stands for it.
USIZE_MAX == 2147483647

\* Iterator::next, lib.rs:611-640: a new block: its symbol count and three tables
BlockPosition_(c, checks) ==
    IF c.st # "Ok" THEN c ELSE ReadPtLen(c.it, MAXNP, c.it.p_bit, FALSE, checks)

BlockCharLen_(t, checks) ==
    IF t.st # "Ok" THEN t
    ELSE Then(ReadCLen(t.it), LAMBDA c : BlockPosition_(c, checks))

StartBlock_(n, checks) ==
    IF n.st # "Ok" THEN n
    ELSE Then(ReadPtLen([n.it EXCEPT !.remaining_block_size = n.val],
                        NT, TBIT, TRUE, checks),
              LAMBDA t : BlockCharLen_(t, checks))

StartBlock(it, checks) == Then(PopBits(it, 16), LAMBDA n : StartBlock_(n, checks))

\* StrPointer_ with a length of 0
StrPointerEmpty_(pos, len) ==
    IF pos.st # "Ok" THEN pos ELSE Ok(pos.it, StrPointer(pos.val, 0))

\* lib.rs:683-700: the symbol: a literal, or a length followed by a position
StrPointer_(pos, len) ==
    IF pos.st # "Ok" THEN pos ELSE Ok(pos.it, StrPointer(pos.val, len))

CodeSymbol_(p, decode_idx) ==
    IF p.st # "Ok" THEN p
    ELSE IF decode_idx < 256 THEN Ok(p.it, OrigChar(decode_idx))
    ELSE Then(DecodePosition(p.it), LAMBDA pos : StrPointer_(pos, decode_idx - (256 - 3)))

\* lib.rs:677: the cursor advances by the length of the symbol's code
DecodeCodeSymbol_(d) ==
    IF d.st # "Ok" THEN d
    ELSE Then(PopBits(d.it, d.it.c_len[d.val]), LAMBDA p : CodeSymbol_(p, d.val))

\* lib.rs:641: remaining_block_size -= 1
CountSymbol(it) ==
    [it EXCEPT !.remaining_block_size = IF @ = 0 THEN USIZE_MAX ELSE @ - 1]

\* lib.rs:641-700: one coded symbol of the current block
DecodeCodeSymbol(it, checks) ==
    IF it.remaining_block_size = 0 /\ checks THEN Err(it, "Panic")
    ELSE Then(DecodeSymbol(CountSymbol(it), it.c_table, CTABLE_BITSIZE, NC),
              DecodeCodeSymbol_)

\* every error sets is_error
IterResult(r) ==
    IF r.st # "Ok"
    THEN [st |-> r.st, it |-> [r.it EXCEPT !.is_error = TRUE], val |-> NoSymbol]
    ELSE r

IterNext_(b, checks) ==
    IF b.st # "Ok" THEN IterResult(b)
    ELSE Then(DecodeCodeSymbol(b.it, checks), IterResult)

\* Iterator::next (lib.rs:607-701): [st, it, val]; st = "None" is the end of
\* the iteration.
IterNext(it, checks) ==
    IF it.is_error THEN [st |-> "None", it |-> it, val |-> NoSymbol]
    ELSE IF it.remaining_block_size = 0
    THEN Then(StartBlock(it, checks), LAMBDA b : IterNext_(b, checks))
    ELSE IterNext_(Ok(it, 0), checks)

\* ------------------------------------------------------------------------
\* Compressed streams in the wire format: the 8-byte header, then blocks of a
\* 16-bit symbol count, the Extra Set, Char&Length and Position Set length
\* arrays and the coded symbols.  These build the inputs of the decoder.

RECURSIVE NumBits(_, _)
NumBits(v, n) == IF n = 0 THEN <<>> ELSE Append(NumBits(v \div 2, n - 1), v % 2)

Repeat(x, n) == [i \in 1..n |-> x]

RECURSIVE BitLen(_)
BitLen(d) == IF d = 0 THEN 0 ELSE 1 + BitLen(d \div 2)

\* the Char&Length symbol and the Position Set symbol of a code symbol
CSym(sym) == IF sym.kind = "OrigChar" THEN sym.char ELSE sym.len + (256 - 3)
PSym(sym) == BitLen(sym.offset)

\* A complete set of code lengths for the symbols in U: 1, 2, ..., k-1, k-1
\* in increasing symbol order; a single symbol gets the degenerate length 0.
LadderLens(U, n) ==
    LET k == Cardinality(U)
        rank(u) == Cardinality({t \in U : t <= u})
    IN [i \in 0..(n - 1) |->
           IF i \notin U \/ k = 1 THEN 0
           ELSE IF rank(i) < k THEN rank(i) ELSE k - 1]

\* Canonical codes: in order of length, then of symbol index.
RECURSIVE CodeBase(_, _, _)
CodeBase(lens, n, L) ==
    IF L <= 1 THEN 0
    ELSE CodeBase(lens, n, L - 1)
         + Cardinality({t \in 0..(n - 1) : lens[t] = L - 1}) * Pow2(16 - (L - 1))

CanonCode(lens, n, sym) ==
    (CodeBase(lens, n, lens[sym])
     + Cardinality({t \in 0..(sym - 1) : lens[t] = lens[sym]}) * Pow2(16 - lens[sym]))
    \div Pow2(16 - lens[sym])

CodeBits(lens, n, sym) == NumBits(CanonCode(lens, n, sym), lens[sym])

\* One entry of an Extra Set or Position Set length array.
LenEntryBits(l) == IF l < 7 THEN NumBits(l, 3) ELSE <<1, 1, 1>> \o Repeat(1, l - 7) \o <<0>>

\* the zero lengths (at most 3) that follow the third entry
ZerosAfterThird(lens, count) ==
    Cardinality({z \in 1..3 : \A j \in 1..z : 2 + j < count /\ lens[2 + j] = 0})

RECURSIVE LenArrayBits(_, _, _, _)
LenArrayBits(lens, idx, count, extra) ==
    IF idx >= count THEN <<>>
    ELSE IF extra /\ idx = 2
    THEN LenEntryBits(lens[2]) \o NumBits(ZerosAfterThird(lens, count), 2)
         \o LenArrayBits(lens, 3 + ZerosAfterThird(lens, count), count, extra)
    ELSE LenEntryBits(lens[idx]) \o LenArrayBits(lens, idx + 1, count, extra)

\* A length array with its count field; one used symbol is written as count 0
\* followed by the symbol.
SetBits(lens, U, num_bits, extra) ==
    LET count == 1 + CHOOSE u \in U : \A t \in U : t <= u
    IN IF U = {} THEN NumBits(0, num_bits) \o NumBits(0, num_bits)
       ELSE IF Cardinality(U) = 1
       THEN NumBits(0, num_bits) \o NumBits(CHOOSE u \in U : TRUE, num_bits)
       ELSE NumBits(count, num_bits) \o LenArrayBits(lens, 0, count, extra)

\* The Extra Set code used by the streams: symbols 0..7, three bits each.
ExtraUsed == 0..7
ExtraLens == [i \in 0..(NT - 1) |-> IF i \in ExtraUsed THEN 3 ELSE 0]
ECode(v) == CodeBits(ExtraLens, NT, v)

\* a run of g zero lengths of the Char&Length array
ZeroRunBits(g) ==
    IF g = 0 THEN <<>>
    ELSE IF g <= 2 THEN (IF g = 1 THEN ECode(0) ELSE ECode(0) \o ECode(0))
    ELSE IF g <= 18 THEN ECode(1) \o NumBits(g - 3, 4)
    ELSE IF g = 19 THEN ECode(0) \o ECode(1) \o NumBits(15, 4)
    ELSE ECode(2) \o NumBits(g - 20, CBIT)

RECURSIVE CLenArrayBits(_, _, _)
CLenArrayBits(clens, U, prev) ==
    LET rest == {u \in U : u > prev}
        u == CHOOSE x \in rest : \A t \in rest : x <= t
    IN IF rest = {} THEN <<>>
       ELSE ZeroRunBits(u - prev - 1) \o ECode(clens[u] + 2) \o CLenArrayBits(clens, U, u)

CSetBits(clens, U) ==
    IF Cardinality(U) = 1
    THEN NumBits(0, CBIT) \o NumBits(CHOOSE u \in U : TRUE, CBIT)
    ELSE NumBits(1 + CHOOSE u \in U : \A t \in U : t <= u, CBIT)
         \o CLenArrayBits(clens, U, -1)

SymBits(sym, clens, plens) ==
    CodeBits(clens, NC, CSym(sym))
    \o IF sym.kind = "OrigChar" THEN <<>>
       ELSE CodeBits(plens, MAXNP, PSym(sym))
            \o IF PSym(sym) > 1
               THEN NumBits(sym.offset - Pow2(PSym(sym) - 1), PSym(sym) - 1)
               ELSE <<>>

RECURSIVE SymsBits(_, _, _, _)
SymsBits(syms, i, clens, plens) ==
    IF i > Len(syms) THEN <<>>
    ELSE SymBits(syms[i], clens, plens) \o SymsBits(syms, i + 1, clens, plens)

\* one block holding the symbols syms
BlockBits(syms, p_bit) ==
    LET UC == {CSym(syms[i]) : i \in 1..Len(syms)}
        UP == {PSym(syms[i]) : i \in {j \in 1..Len(syms) : syms[j].kind = "StrPointer"}}
        clens == LadderLens(UC, NC)
        plens == LadderLens(UP, MAXNP)
    IN NumBits(Len(syms), 16)
       \o SetBits(ExtraLens, ExtraUsed, TBIT, TRUE)
       \o CSetBits(clens, UC)
       \o SetBits(plens, UP, p_bit, FALSE)
       \o SymsBits(syms, 1, clens, plens)

\* bits to bytes, the last byte padded with zero bits
PackBytes(bits) ==
    LET b(j) == IF j <= Len(bits) THEN bits[j] ELSE 0
    IN [i \in 1..((Len(bits) + 7) \div 8) |->
           128 * b(8 * i - 7) + 64 * b(8 * i - 6) + 32 * b(8 * i - 5) + 16 * b(8 * i - 4)
           + 8 * b(8 * i - 3) + 4 * b(8 * i - 2) + 2 * b(8 * i - 1) + b(8 * i)]

\* u32::to_le_bytes
LeBytes(v) == <<v % 256, (v \div 256) % 256, (v \div 65536) % 256, (v \div 16777216) % 256>>

\* header and payload
Stream(compressed_size, orig_size, payload) ==
    LeBytes(compressed_size) \o LeBytes(orig_size) \o payload

\* the expansion of a symbol sequence: literals appended, back-references copied
\* byte by byte from offset + 1 bytes back
RECURSIVE CopyBack(_, _, _)
CopyBack(out, offset, len) ==
    IF len = 0 THEN out
    ELSE CopyBack(Append(out, out[Len(out) - offset]), offset, len - 1)

RECURSIVE Expand(_, _)
Expand(syms, i) ==
    IF i = 0 THEN <<>>
    ELSE IF syms[i].kind = "OrigChar" THEN Append(Expand(syms, i - 1), syms[i].char)
    ELSE CopyBack(Expand(syms, i - 1), syms[i].offset, syms[i].len)

\* every back-reference of the sequence points into what was produced before it
RECURSIVE InRange(_, _)
InRange(syms, i) ==
    IF i = 0 THEN TRUE
    ELSE InRange(syms, i - 1)
         /\ (syms[i].kind = "StrPointer" => syms[i].offset + 1 <= Len(Expand(syms, i - 1)))


\* ------------------------------------------------------------------------
\* decompress_into_with_algo (lib.rs:20-83) as a state machine

VARIABLES
    src,        \* the compressed input, a sequence of bytes
    dst,        \* the destination buffer, a function over 0..len-1
    algo,       \* "UefiDecompress" or "TianoDecompress"
    checks,     \* whether the build traps integer overflow
    fixture,    \* what the input was made from: [syms, wellformed, cut]
    pc,         \* "start", "next", "match", "copy", "done"
    result,     \* "none" while running, then Ok, an error or Panic
    dst_idx,    \* the write index
    iter,       \* the CodeIterator
    symbol,     \* the CodeSymbol being handled
    sym_at,     \* the write index when symbol was decoded
    copy_src,   \* the loop variable of the copy, start..start+len
    copy_end,
    wr_idx,     \* the last index of dst a write was attempted at, -1 if none
    rd_idx,     \* the last index of dst a copy read, -1 if none
    call,       \* a table build on its own: [set, lens, st]
    probe,      \* a lookup in the table built: [sym, pad, st, got]
    lock,       \* TplMutex.lock, the AtomicBool
    tpl,        \* the task priority level the boot services are at
    tpl_lock_level,
    caller,     \* per caller of the mutex: [pc, op, held, outcome, message, cas]
    dropped,    \* whether a guard has been dropped
    service,    \* "Boot" or "Runtime": which of the two structs
    efi_services,   \* the AtomicPtr efi_boot_services / efi_runtime_services
    user,       \* per caller of the services: [pc, arg, outcome, message]
    inits,      \* the number of initialize calls that returned
    replaced,   \* whether a store overwrote a pointer that was set
    getvar      \* a get_variable call: [pc, data, first_attempt, calls, outcome, ...]

\* the TplMutex, the services struct
mvars == <<lock, tpl, tpl_lock_level, caller, dropped>>
svars == <<service, efi_services, user, inits, replaced, getvar>>

vars == <<src, dst, algo, checks, fixture, pc, result, dst_idx, iter, symbol, sym_at,
          copy_src, copy_end, wr_idx, rd_idx, call, probe, mvars, svars>>

NoCall == [set |-> "none", lens |-> <<>>, st |-> "none"]
NoProbe == [sym |-> -1, pad |-> 0, st |-> "none", got |-> 0]

\* the variables a decompress call never touches
hvars == <<call, probe, mvars, svars>>

\* no mutex, no services struct
NoMutex ==
    /\ lock = FALSE
    /\ tpl = "APPLICATION"
    /\ tpl_lock_level = "NOTIFY"
    /\ caller = <<>>
    /\ dropped = FALSE

NoServices ==
    /\ service = "none"
    /\ efi_services = 0
    /\ user = <<>>
    /\ inits = 0
    /\ replaced = FALSE
    /\ getvar = <<>>

DstLen == Cardinality(DOMAIN dst)

\* u32::from_le_bytes of src[at..at+4]
LeU32(bytes, at) ==
    bytes[at + 1] + 256 * bytes[at + 2] + 65536 * bytes[at + 3] + 16777216 * bytes[at + 4]

\* HeaderCheck with the destination size examined before the source size
HeaderCheckDstFirst(bytes, dst_len) ==
    IF Len(bytes) < 8 THEN "InvalidSrcSize"
    ELSE IF LeU32(bytes, 4) # 0 /\ LeU32(bytes, 4) # dst_len THEN "InvalidDstSize"
    ELSE IF LeU32(bytes, 0) > Len(bytes) THEN "InvalidSrcSize"
    ELSE IF LeU32(bytes, 4) = 0 THEN "Ok"
    ELSE "Decode"

\* HeaderCheck without the return for orig_size = 0
HeaderCheckNoZero(bytes, dst_len) ==
    IF Len(bytes) < 8 THEN "InvalidSrcSize"
    ELSE IF LeU32(bytes, 0) > Len(bytes) THEN "InvalidSrcSize"
    ELSE IF LeU32(bytes, 4) # dst_len THEN "InvalidDstSize"
    ELSE "Decode"

\* lib.rs:26-41: what the header decides: an error, the empty success, or "Decode"
HeaderCheck(bytes, dst_len) ==
    IF Len(bytes) < 8 THEN "InvalidSrcSize"
    ELSE IF LeU32(bytes, 0) > Len(bytes) THEN "InvalidSrcSize"
    ELSE IF LeU32(bytes, 4) = 0 THEN "Ok"
    ELSE IF LeU32(bytes, 4) # dst_len THEN "InvalidDstSize"
    ELSE "Decode"

\* CopyStart without the second checked_sub
CopyStartOneShort(idx, offset) == IF idx - offset >= 0 THEN idx - offset ELSE -1

\* CopyStart with the window at the start of the destination
CopyStartAtZero(idx, offset) == IF idx - offset - 1 >= 0 THEN 0 ELSE -1

\* lib.rs:55-58: dst_idx.checked_sub(offset).and_then(|x| x.checked_sub(1)); -1 is None
CopyStart(idx, offset) == IF idx - offset - 1 >= 0 THEN idx - offset - 1 ELSE -1

\* Full one byte early, and never
FullEarly(idx, len) == idx + 1 >= len
FullNever(idx, len) == FALSE

\* lib.rs:67 and 78: the destination is full
Full(idx, len) == idx = len

\* the payload cut at compressed_size
PayloadSized(bytes) ==
    SubSeq(bytes, 9, IF LeU32(bytes, 0) < 8 THEN 8 ELSE LeU32(bytes, 0))

\* lib.rs:45: &src[8..]
Payload(bytes) == SubSeq(bytes, 9, Len(bytes))

\* lib.rs:26-45: the checks of the header, then the iterator over src[8..]
Enter ==
    /\ pc = "start"
    /\ LET h == HeaderCheck(src, DstLen)
       IN IF h = "Decode"
          THEN /\ iter' = NewCodeIterator(Payload(src), algo)
               /\ pc' = "next"
               /\ result' = result
          ELSE /\ result' = h
               /\ pc' = "done"
               /\ iter' = iter
    /\ UNCHANGED <<src, dst, algo, checks, fixture, dst_idx, symbol, sym_at,
                   copy_src, copy_end, wr_idx, rd_idx>>
    /\ UNCHANGED hvars

\* lib.rs:45-46, 74, 82: the for loop asks the iterator for the next symbol
NextSymbol ==
    /\ pc = "next"
    /\ \E r \in {IterNext(iter, checks)} :
          /\ iter' = r.it
          /\ IF r.st = "Ok"
             THEN symbol' = r.val /\ sym_at' = dst_idx /\ pc' = "match" /\ result' = result
             ELSE /\ UNCHANGED <<symbol, sym_at>>
                  /\ pc' = "done"
                  /\ result' = IF r.st = "None" THEN "Ok" ELSE r.st
    /\ UNCHANGED <<src, dst, algo, checks, fixture, dst_idx, copy_src, copy_end,
                   wr_idx, rd_idx>>
    /\ UNCHANGED hvars

\* lib.rs:48-52 and 77-80: a literal is written at the write index
WriteLiteral ==
    /\ pc = "match"
    /\ symbol.kind = "OrigChar"
    /\ wr_idx' = dst_idx
    /\ IF dst_idx \in DOMAIN dst
       THEN /\ dst' = [dst EXCEPT ![dst_idx] = symbol.char]
            /\ dst_idx' = dst_idx + 1
            /\ IF Full(dst_idx + 1, DstLen)
               THEN pc' = "done" /\ result' = "Ok"
               ELSE pc' = "next" /\ result' = result
       ELSE /\ pc' = "done"
            /\ result' = "Panic"
            /\ UNCHANGED <<dst, dst_idx>>
    /\ UNCHANGED <<src, algo, checks, fixture, iter, symbol, sym_at, copy_src, copy_end,
                   rd_idx>>
    /\ UNCHANGED hvars

\* lib.rs:53-58 and 64: the start of the window of a back-reference
BeginCopy ==
    /\ pc = "match"
    /\ symbol.kind = "StrPointer"
    /\ LET start == CopyStart(dst_idx, symbol.offset)
       IN IF start = -1
          THEN /\ pc' = "done"
               /\ result' = "MalformedSrcData"
               /\ UNCHANGED <<copy_src, copy_end>>
          ELSE /\ copy_src' = start
               /\ copy_end' = start + symbol.len
               /\ pc' = IF symbol.len = 0 THEN "next" ELSE "copy"
               /\ result' = result
    /\ UNCHANGED <<src, dst, algo, checks, fixture, dst_idx, iter, symbol, sym_at,
                   wr_idx, rd_idx>>
    /\ UNCHANGED hvars

\* lib.rs:64-70 and 77-80: one byte of the copy
CopyByte ==
    /\ pc = "copy"
    /\ wr_idx' = dst_idx
    /\ rd_idx' = copy_src
    /\ IF dst_idx \in DOMAIN dst /\ copy_src \in DOMAIN dst
       THEN /\ dst' = [dst EXCEPT ![dst_idx] = dst[copy_src]]
            /\ dst_idx' = dst_idx + 1
            /\ copy_src' = copy_src + 1
            /\ IF Full(dst_idx + 1, DstLen)
               THEN pc' = "done" /\ result' = "Ok"
               ELSE /\ pc' = IF copy_src + 1 < copy_end THEN "copy" ELSE "next"
                    /\ result' = result
       ELSE /\ pc' = "done"
            /\ result' = "Panic"
            /\ UNCHANGED <<dst, dst_idx, copy_src>>
    /\ UNCHANGED <<src, algo, checks, fixture, iter, symbol, sym_at, copy_end>>
    /\ UNCHANGED hvars

Next == Enter \/ NextSymbol \/ WriteLiteral \/ BeginCopy \/ CopyByte


\* ------------------------------------------------------------------------
\* The inputs the calls are made with

\* bounds of the input families
MaxLits == 2
MaxDist == 2
PadBytes == 2
MaxZeros == 9
MaxTail == 2
MaxOrig == 2

\* n literals, 'A' 'B' 'A' ...
Lits(n) == [i \in 1..n |-> OrigChar(65 + ((i - 1) % 2))]

\* the back-references used: distance d, length 5 for d = 0 and 3 otherwise
Refs == {StrPointer(d, IF d = 0 THEN 5 ELSE 3) : d \in 0..MaxDist}

\* symbol sequences: up to MaxLits literals, then up to two back-references
Plans ==
    {Lits(n) \o rs : n \in 0..MaxLits,
                      rs \in {<<>>} \cup {<<r>> : r \in Refs}
                               \cup {<<r1, r2>> : r1 \in Refs, r2 \in Refs}}
    \ {<<>>}

RECURSIVE ExpLen(_, _)
ExpLen(syms, i) ==
    IF i = 0 THEN 0
    ELSE ExpLen(syms, i - 1) + (IF syms[i].kind = "OrigChar" THEN 1 ELSE syms[i].len)

AlgoPBit(a) == IF a = "UefiDecompress" THEN 4 ELSE 5

\* the one-block stream of a symbol sequence, pad zero bytes after it, the
\* declared size cut by short
PlanInput(syms, a, pad, short) ==
    LET payload == PackBytes(BlockBits(syms, AlgoPBit(a))) \o Repeat(0, pad)
        orig == ExpLen(syms, Len(syms)) - short
    IN [src |-> Stream(Len(payload), orig, payload), dst_len |-> orig, algo |-> a,
        checks |-> TRUE, syms |-> syms,
        wellformed |-> short = 0 /\ InRange(syms, Len(syms)), cut |-> 0]

PlanInputs ==
    {PlanInput(syms, "UefiDecompress", pad, 0) : syms \in Plans, pad \in {0, PadBytes}}
    \cup {PlanInput(syms, "TianoDecompress", PadBytes, 0) : syms \in Plans}
    \cup {PlanInput(syms, "UefiDecompress", PadBytes, 1) :
             syms \in {p \in Plans : Len(p) = MaxLits + 1}}

RawInput(bytes, dst_len, a, c) ==
    [src |-> bytes, dst_len |-> dst_len, algo |-> a, checks |-> c, syms |-> <<>>,
     wellformed |-> FALSE, cut |-> 0]

\* sources shorter than a header, and headers with the sizes at their limits
HeaderInputs ==
    {RawInput(SubSeq(Stream(n, 1, <<>>), 1, n), dl, "UefiDecompress", TRUE) :
        n \in 0..7, dl \in 0..1}
    \cup {RawInput(Stream(8 + k + delta, os, Repeat(0, k)), dl, a, TRUE) :
             k \in 0..MaxTail, delta \in 0..1, os \in 0..MaxOrig, dl \in 0..MaxOrig,
             a \in {"UefiDecompress", "TianoDecompress"}}

\* payloads of zero bytes: a block of 0 symbols with three one-symbol tables
ZeroInputs ==
    {RawInput(Stream(k, 1, Repeat(0, k)), 1, a, c) :
        k \in 0..MaxZeros, a \in {"UefiDecompress", "TianoDecompress"}, c \in BOOLEAN}

\* an Extra Set length of 3-bit value 7 followed by U8 one-bits
OnesInputs ==
    {RawInput(Stream(3 + (U8 \div 8) + k, 1, <<0, 1, 15>> \o Repeat(255, U8 \div 8)
                                              \o Repeat(0, k)),
              1, "UefiDecompress", c) : k \in 0..1, c \in BOOLEAN}

\* an input without the final byte of its source
Truncated(inp) ==
    [inp EXCEPT !.src = SubSeq(inp.src, 1, Len(inp.src) - 1), !.wellformed = FALSE,
                !.cut = 1]

\* the well-formed streams, each without its final byte
TruncatedInputs ==
    {Truncated(inp) : inp \in {i \in PlanInputs : i.wellformed}}

Inputs ==
    PlanInputs \cup HeaderInputs \cup ZeroInputs \cup OnesInputs \cup TruncatedInputs

Init ==
    \E inp \in Inputs :
        /\ src = inp.src
        /\ dst = [i \in 0..(inp.dst_len - 1) |-> 0]
        /\ algo = inp.algo
        /\ checks = inp.checks
        /\ fixture = [syms |-> inp.syms, wellformed |-> inp.wellformed, cut |-> inp.cut]
        /\ pc = "start"
        /\ result = "none"
        /\ dst_idx = 0
        /\ iter = NewCodeIterator(<<>>, inp.algo)
        /\ symbol = NoSymbol
        /\ sym_at = 0
        /\ copy_src = 0
        /\ copy_end = 0
        /\ wr_idx = -1
        /\ rd_idx = -1
        /\ call = NoCall
        /\ probe = NoProbe
        /\ NoMutex
        /\ NoServices

Spec == Init /\ [][Next]_vars

\* The call made a second time, on the same source with another
\* compressed_size and on a destination of the same length; what the first
\* call returned and wrote is kept in call.
SizesFor(bytes) == {0, 8, Len(bytes) - 1, Len(bytes)}

Again ==
    /\ pc = "done"
    /\ call = NoCall
    /\ Len(src) >= 8
    /\ LeU32(src, 0) <= Len(src)
    /\ \E size \in SizesFor(src) \ {LeU32(src, 0)} :
          src' = LeBytes(size) \o SubSeq(src, 5, Len(src))
    /\ call' = [set |-> "first", lens |-> <<>>, st |-> result, dst |-> dst,
                used |-> iter.src_index]
    /\ dst' = [i \in DOMAIN dst |-> 0]
    /\ pc' = "start"
    /\ result' = "none"
    /\ dst_idx' = 0
    /\ iter' = NewCodeIterator(<<>>, algo)
    /\ symbol' = NoSymbol
    /\ sym_at' = 0
    /\ copy_src' = 0
    /\ copy_end' = 0
    /\ wr_idx' = -1
    /\ rd_idx' = -1
    /\ UNCHANGED <<algo, checks, fixture, probe, mvars, svars>>

NextTwice == Next \/ Again

SpecTwice == Init /\ [][NextTwice]_vars

\* decompress_into_with_algo is one sequential call (lib.rs:20-83) with no wait
\* and no yield in it: the processor keeps executing it, so a step that stays
\* possible is eventually taken.
SpecFair == Spec /\ WF_vars(Next)


\* ------------------------------------------------------------------------
\* build_huffman_table on its own: the three calls the iterator makes
\* (lib.rs:233-240 twice, 350-357), each on a length array of a bounded
\* family, over new tables and over tables an earlier block has used; then
\* lookups in the table built.

\* bound of the exhaustive family: arrays of MaxWidth lengths 0..MaxWidth-1
MaxWidth == 4
\* the longest code length build_huffman_table accepts (lib.rs:467)
MAX_CODE_LEN == 16

Sets == {"Extra", "Position", "CharLen"}
NumSymbols(set) == IF set = "Extra" THEN NT ELSE IF set = "Position" THEN MAXNP ELSE NC
TableBits(set) == IF set = "CharLen" THEN CTABLE_BITSIZE ELSE PTABLE_BITSIZE

\* 1, 2, ..., k-1, k-1 and the same from the longest code down
Ladder(k) == [i \in 1..k |-> IF i < k THEN i ELSE k - 1]
RevLadder(k) == [i \in 1..k |-> Ladder(k)[k + 1 - i]]
\* 2^l codes of length l
Flat(l) == [i \in 1..Pow2(l) |-> l]

RECURSIVE Tuples(_, _)
Tuples(n, S) ==
    IF n = 0 THEN {<<>>} ELSE {Append(t, x) : t \in Tuples(n - 1, S), x \in S}

\* 1, 1, 2, 2, 2, 3, 4, ..., k-1, k, k: twice the code space, which the u16 sum
\* of lib.rs:475-480 takes for none of it
Wrapped(k) == <<1, 1, 2, 2, 2>> \o [i \in 1..(k - 3) |-> i + 2] \o <<k, k>>

LongArrays ==
    {Ladder(k) : k \in 2..(MAX_CODE_LEN + 2)}
    \cup {RevLadder(k) : k \in 2..(MAX_CODE_LEN + 2)}
    \cup {Wrapped(PTABLE_BITSIZE + 2), Wrapped(CTABLE_BITSIZE + 2)}
    \cup {Flat(l) : l \in 1..(MaxWidth - 1)}
    \cup {Flat(a) \o Flat(b) : a \in 1..(MaxWidth - 2), b \in 1..(MaxWidth - 2)}

HuffCalls ==
    {[set |-> set, lens |-> lens] :
        set \in {"Extra", "Position"}, lens \in Tuples(MaxWidth, 0..(MaxWidth - 1))}
    \cup {[set |-> set, lens |-> lens] : set \in Sets, lens \in LongArrays}

\* the length array of a set: lens, then zeros (lib.rs:226-230, 346-347)
LenArray(lens, n) == [i \in 0..(n - 1) |-> IF i < Len(lens) THEN lens[i + 1] ELSE 0]

WithLens(it, set, lens) ==
    IF set = "CharLen"
    THEN [it EXCEPT !.c_len = LenArray(lens, NC)]
    ELSE [it EXCEPT !.pt_len = [i \in DOMAIN it.pt_len |->
                                   IF i < NumSymbols(set)
                                   THEN LenArray(lens, NumSymbols(set))[i]
                                   ELSE it.pt_len[i]]]

BuildSet(it, set) ==
    IF set = "CharLen" THEN BuildCTable(it) ELSE BuildPtTable(it, NumSymbols(set))

\* an iterator whose tables an earlier block has filled
UsedIterator ==
    BuildSet(WithLens(BuildSet(WithLens(NewCodeIterator(<<>>, "UefiDecompress"),
                                        "Position", RevLadder(MAX_CODE_LEN + 1)),
                               "Position").it,
                      "CharLen", RevLadder(MAX_CODE_LEN + 1)),
             "CharLen").it

\* an iterator after a block of a TianoDecompress stream whose Extra Set has
\* the lengths 1, 2, ..., 16, 16 and whose Position Set gives those lengths to
\* the symbols 3..19
UsedTianoIterator ==
    BuildSet(WithLens(BuildSet(WithLens(NewCodeIterator(<<>>, "TianoDecompress"),
                                        "Extra", Ladder(MAX_CODE_LEN + 1)),
                               "Extra").it,
                      "Position", Repeat(0, 3) \o Ladder(MAX_CODE_LEN + 1)),
             "Position").it

\* an iterator after a block whose Char&Length Set had the lengths
\* Wrapped(14), and in the next block after the Char&Length Set (lengths 16,
\* 16, 15, ..., 1) has been read
UsedWrappedIterator ==
    BuildSet(WithLens(BuildSet(WithLens(NewCodeIterator(<<>>, "UefiDecompress"),
                                        "CharLen", Wrapped(CTABLE_BITSIZE + 2)),
                               "CharLen").it,
                      "CharLen", RevLadder(MAX_CODE_LEN + 1)),
             "CharLen").it

InitHuff ==
    \E it \in {NewCodeIterator(<<>>, "UefiDecompress"), UsedIterator, UsedTianoIterator,
                UsedWrappedIterator},
       c \in HuffCalls :
        /\ call = [set |-> c.set, lens |-> c.lens, st |-> "none"]
        /\ iter = WithLens(it, c.set, c.lens)
        /\ probe = NoProbe
        /\ pc = "build"
        /\ src = <<>>
        /\ dst = <<>>
        /\ algo = "UefiDecompress"
        /\ checks = TRUE
        /\ fixture = [syms |-> <<>>, wellformed |-> FALSE, cut |-> 0]
        /\ result = "none"
        /\ dst_idx = 0
        /\ symbol = NoSymbol
        /\ sym_at = 0
        /\ copy_src = 0
        /\ copy_end = 0
        /\ wr_idx = -1
        /\ rd_idx = -1
        /\ NoMutex
        /\ NoServices

dvars == <<src, dst, algo, checks, fixture, result, dst_idx, symbol, sym_at,
           copy_src, copy_end, wr_idx, rd_idx, mvars, svars>>

BuildTable_(r) ==
    /\ iter' = r.it
    /\ call' = [call EXCEPT !.st = r.st]
    /\ pc' = IF r.st = "Ok" THEN "probe" ELSE "done"

\* the call of build_huffman_table
BuildTable ==
    /\ pc = "build"
    /\ \E r \in {BuildSet(iter, call.set)} : BuildTable_(r)
    /\ UNCHANGED <<probe, dvars>>

\* the bits of the codeword of sym, then 16 bits all equal to pad
ProbeBits(set, lens, sym, pad) ==
    PackBytes(CodeBits(LenArray(lens, NumSymbols(set)), NumSymbols(set), sym)
              \o Repeat(pad, 16))

Lookup(it, set) ==
    IF set = "CharLen" THEN DecodeSymbol(it, it.c_table, CTABLE_BITSIZE, NC)
    ELSE DecodeSymbol(it, it.pt_table, PTABLE_BITSIZE, NumSymbols(set))

ProbeSymbol_(sym, pad, d) ==
    /\ probe' = [sym |-> sym, pad |-> pad, st |-> d.st, got |-> d.val]
    /\ pc' = "done"

\* a lookup (lib.rs:292-310, 378-400, 644-675) of the canonical codeword of a
\* symbol, followed by zero bits or by one bits
ProbeSymbol ==
    /\ pc = "probe"
    /\ \E sym \in 0..(Len(call.lens) - 1), pad \in 0..1 :
          /\ call.lens[sym + 1] > 0
          /\ CanonCode(LenArray(call.lens, NumSymbols(call.set)), NumSymbols(call.set), sym)
                < Pow2(call.lens[sym + 1])
          /\ \E d \in {Lookup([iter EXCEPT !.src = ProbeBits(call.set, call.lens, sym, pad),
                                              !.src_index = 0],
                                 call.set)} :
                 ProbeSymbol_(sym, pad, d)
    /\ UNCHANGED <<iter, call, dvars>>

\* the numbers of unread bits a lookup of a code of len bits is tried with: the
\* code alone, one bit less than the table's width, the table's width
Rooms(set, len) == {r \in {len, TableBits(set) - 1, TableBits(set)} : r >= len}

\* the bits already read, which fill the first byte
Skip(room) == (8 - (room % 8)) % 8

\* a source of which room bits are unread: the codeword of sym and bits equal
\* to pad, after the bits already read that fill the first byte
TailSrc(set, lens, sym, room, pad) ==
    PackBytes(Repeat(0, Skip(room))
              \o CodeBits(LenArray(lens, NumSymbols(set)), NumSymbols(set), sym)
              \o Repeat(pad, room - lens[sym + 1]))

\* a lookup (lib.rs:292-310, 378-400, 644-675) of the canonical codeword of a
\* symbol near the end of the source
ProbeTail ==
    /\ pc = "probe"
    /\ \E sym \in 0..(Len(call.lens) - 1), pad \in 0..1 :
          /\ call.lens[sym + 1] > 0
          /\ CanonCode(LenArray(call.lens, NumSymbols(call.set)), NumSymbols(call.set), sym)
                < Pow2(call.lens[sym + 1])
          /\ \E room \in Rooms(call.set, call.lens[sym + 1]) :
                \E d \in {Lookup([iter EXCEPT
                                     !.src = TailSrc(call.set, call.lens, sym, room, pad),
                                     !.src_index = Skip(room)],
                                 call.set)} :
                   probe' = [sym |-> -1, pad |-> pad, st |-> d.st, got |-> d.val,
                             of |-> sym, room |-> room]
    /\ pc' = "tail"
    /\ UNCHANGED <<iter, call, dvars>>

NextHuff == BuildTable \/ ProbeSymbol \/ ProbeTail

SpecHuff == InitHuff /\ [][NextHuff]_vars


\* ------------------------------------------------------------------------
\* TplMutex (tpl_mutex.rs): callers that share one mutex. A step is one atomic
\* access to the lock or one boot services call, so the steps of the callers
\* interleave in every order.

NumCallers == 2
Callers == 1..NumCallers

\* no decompress call
NoDecompress ==
    /\ src = <<>>
    /\ dst = <<>>
    /\ algo = "UefiDecompress"
    /\ checks = TRUE
    /\ fixture = [syms |-> <<>>, wellformed |-> FALSE, cut |-> 0]
    /\ pc = "none"
    /\ result = "none"
    /\ dst_idx = 0
    /\ iter = <<>>
    /\ symbol = NoSymbol
    /\ sym_at = 0
    /\ copy_src = 0
    /\ copy_end = 0
    /\ wr_idx = -1
    /\ rd_idx = -1
    /\ call = NoCall
    /\ probe = NoProbe

cvars == <<src, dst, algo, checks, fixture, pc, result, dst_idx, iter, symbol, sym_at,
           copy_src, copy_end, wr_idx, rd_idx, call, probe>>

NoMessage == [text |-> "", value |-> ""]
NoCas == [locked |-> FALSE, alive |-> 0, own |-> 0, quiet |-> FALSE]

\* the guards alive: the i-th guard of caller c holds the level to restore
Guards == UNION {{<<c, i>> : i \in 1..Len(caller[c].held)} : c \in Callers}
GuardCount == Cardinality(Guards)

\* no guard is alive and no other caller is between its compare_exchange and
\* its guard
Quiet(c) == GuardCount = 0 /\ \A d \in Callers \ {c} : caller[d].pc # "raise"

\* TplMutex::new: unlocked, no guard
InitMutex ==
    \E level \in {"CALLBACK", "NOTIFY"}, at \in {"APPLICATION", "CALLBACK"} :
        /\ lock = FALSE
        /\ tpl = at
        /\ tpl_lock_level = level
        /\ caller = [c \in Callers |->
                        [pc |-> "idle", op |-> "none", held |-> <<>>, outcome |-> "none",
                         message |-> NoMessage, cas |-> NoCas]]
        /\ dropped = FALSE
        /\ NoDecompress
        /\ NoServices

\* a compare_exchange that stores whatever the value is
compare_exchange_blind(value, current, new) == [st |-> "Ok", value |-> new]

\* AtomicBool::compare_exchange(current, new), one atomic step
compare_exchange(value, current, new) ==
    IF value = current THEN [st |-> "Ok", value |-> new]
    ELSE [st |-> "Err", value |-> value]

\* what the caller sees when its compare_exchange runs
CasSeen(c) ==
    [locked |-> lock, alive |-> GuardCount, own |-> Len(caller[c].held), quiet |-> Quiet(c)]

\* a caller that can make a call: between calls and not stopped by a panic
Ready(c) == caller[c].pc = "idle" /\ caller[c].outcome # "Panic"

\* try_lock, up to the compare_exchange: Err(()) at once, or the guard is next
TryLock(c) ==
    /\ Ready(c)
    /\ \E r \in {compare_exchange(lock, FALSE, TRUE)} :
          /\ lock' = r.value
          /\ caller' = [caller EXCEPT ![c] =
                           [@ EXCEPT !.op = "try_lock",
                                     !.cas = CasSeen(c),
                                     !.pc = IF r.st = "Ok" THEN "raise" ELSE "idle",
                                     !.outcome = IF r.st = "Ok" THEN "none" ELSE "Err",
                                     !.message = NoMessage]]
    /\ UNCHANGED <<tpl, tpl_lock_level, dropped, svars, cvars>>

\* unwrap of an Err that hands the error back
UnwrapErr(err) == [pc |-> "idle", outcome |-> "Err", message |-> NoMessage]

\* Result::unwrap of Err(err): a panic whose message is a fixed text (written
\* here without its backquotes) followed by err
Unwrap(err) ==
    [pc |-> "idle", outcome |-> "Panic",
     message |-> [text |-> "called Result::unwrap() on an Err value: ", value |-> err]]

\* lock: try_lock, map_err to "Re-entrant lock", unwrap
Lock(c) ==
    /\ Ready(c)
    /\ \E r \in {compare_exchange(lock, FALSE, TRUE)}, failed \in {Unwrap("Re-entrant lock")} :
          /\ lock' = r.value
          /\ caller' = [caller EXCEPT ![c] =
                           [@ EXCEPT !.op = "lock",
                                     !.cas = CasSeen(c),
                                     !.pc = IF r.st = "Ok" THEN "raise" ELSE failed.pc,
                                     !.outcome = IF r.st = "Ok" THEN "none" ELSE failed.outcome,
                                     !.message = IF r.st = "Ok" THEN NoMessage
                                                 ELSE failed.message]]
    /\ UNCHANGED <<tpl, tpl_lock_level, dropped, svars, cvars>>

\* a guard that keeps the level it asked for
RaiseTplKeepsLevel(c) ==
    /\ caller[c].pc = "raise"
    /\ tpl' = tpl_lock_level
    /\ caller' = [caller EXCEPT ![c] =
                     [@ EXCEPT !.held = Append(@, tpl_lock_level), !.pc = "idle",
                               !.outcome = "Ok"]]
    /\ UNCHANGED <<lock, tpl_lock_level, dropped, svars, cvars>>

\* the guard of a successful compare_exchange: raise_tpl(tpl_lock_level) returns
\* the level the boot services were at, which the guard keeps as release_tpl
RaiseTpl(c) ==
    /\ caller[c].pc = "raise"
    /\ tpl' = tpl_lock_level
    /\ caller' = [caller EXCEPT ![c] =
                     [@ EXCEPT !.held = Append(@, tpl), !.pc = "idle", !.outcome = "Ok"]]
    /\ UNCHANGED <<lock, tpl_lock_level, dropped, svars, cvars>>

\* TplMutexGuard::drop, first half: restore_tpl(release_tpl). The guard of a
\* caller that panicked is dropped too when the panic unwinds.
RestoreTpl(c) ==
    /\ caller[c].pc = "idle"
    /\ caller[c].held # <<>>
    /\ tpl' = caller[c].held[Len(caller[c].held)]
    /\ caller' = [caller EXCEPT ![c].pc = "store"]
    /\ UNCHANGED <<lock, tpl_lock_level, dropped, svars, cvars>>

\* TplMutexGuard::drop, second half: lock.store(false); the guard is gone
StoreUnlocked(c) ==
    /\ caller[c].pc = "store"
    /\ lock' = FALSE
    /\ caller' = [caller EXCEPT ![c] =
                     [@ EXCEPT !.held = SubSeq(@, 1, Len(@) - 1), !.pc = "idle"]]
    /\ dropped' = TRUE
    /\ UNCHANGED <<tpl, tpl_lock_level, svars, cvars>>

NextMutex ==
    \E c \in Callers :
        TryLock(c) \/ Lock(c) \/ RaiseTpl(c) \/ RestoreTpl(c) \/ StoreUnlocked(c)

SpecMutex == InitMutex /\ [][NextMutex]_vars

\* ------------------------------------------------------------------------
\* StandardBootServices (boot_services.rs:43-84) and StandardRuntimeServices
\* (runtime_services.rs:24-68): callers that share one struct made by
\* new_uninit. A step is one atomic access to the pointer.

MaxPointers == 2
Pointers == 1..MaxPointers

\* ptr::null_mut()
Null == 0

\* the panic messages of the two structs
AlreadyInitialized(k) ==
    IF k = "Boot" THEN "Boot services is already initialize."
    ELSE "Runtime services is already initialized."

NotInitialized(k) ==
    IF k = "Boot" THEN "Boot services is not initialize."
    ELSE "Runtime services is not initialized."

\* new_uninit: the null pointer
InitServices ==
    \E k \in {"Boot", "Runtime"} :
        /\ service = k
        /\ efi_services = Null
        /\ user = [c \in Callers |->
                      [pc |-> "idle", arg |-> Null, got |-> Null, op |-> "none",
                       outcome |-> "none", message |-> ""]]
        /\ inits = 0
        /\ replaced = FALSE
        /\ getvar = <<>>
        /\ NoDecompress
        /\ NoMutex

UserReady(c) == user[c].pc = "idle" /\ user[c].outcome # "Panic"

\* initialize, the load: a pointer that is set is a panic, a null pointer
\* leads on to the store
InitializeLoad(c, p) ==
    /\ UserReady(c)
    /\ user' = [user EXCEPT ![c] =
                   IF efi_services = Null
                   THEN [@ EXCEPT !.pc = "store", !.op = "initialize", !.arg = p,
                                  !.outcome = "none", !.message = ""]
                   ELSE [@ EXCEPT !.op = "initialize", !.arg = p, !.outcome = "Panic",
                                  !.message = AlreadyInitialized(service)]]
    /\ UNCHANGED <<service, efi_services, inits, replaced, getvar, mvars, cvars>>

\* initialize, the store of the pointer passed in
InitializeStore(c) ==
    /\ user[c].pc = "store"
    /\ efi_services' = user[c].arg
    /\ replaced' = (replaced \/ efi_services # Null)
    /\ inits' = inits + 1
    /\ user' = [user EXCEPT ![c] = [@ EXCEPT !.pc = "idle", !.outcome = "Ok"]]
    /\ UNCHANGED <<service, getvar, mvars, cvars>>

\* efi_boot_services() / efi_runtime_services(), which every service call goes
\* through: load, and expect a pointer that is not null
UseServices(c) ==
    /\ UserReady(c)
    /\ user' = [user EXCEPT ![c] =
                   IF efi_services = Null
                   THEN [@ EXCEPT !.op = "use", !.got = Null, !.outcome = "Panic",
                                  !.message = NotInitialized(service)]
                   ELSE [@ EXCEPT !.op = "use", !.got = efi_services, !.outcome = "Ok",
                                  !.message = ""]]
    /\ UNCHANGED <<service, efi_services, inits, replaced, getvar, mvars, cvars>>

NextServices ==
    \E c \in Callers :
        \/ \E p \in Pointers : InitializeLoad(c, p)
        \/ InitializeStore(c)
        \/ UseServices(c)

SpecServices == InitServices /\ [][NextServices]_vars

\* ------------------------------------------------------------------------
\* RuntimeServices::get_variable (runtime_services.rs:97-148) over a
\* get_variable_unchecked that may answer anything.

DUMMY_DATA_REPR_SIZE == 4

\* the sizes of buffers and variables
Sizes == {0, 1, DUMMY_DATA_REPR_SIZE, DUMMY_DATA_REPR_SIZE + 1}

\* attributes, fill bytes and error statuses of the answers
Attributes == {0, 7}
Fill == {1, 2}
Errors == {"NOT_FOUND", "DEVICE_ERROR"}

NoOutcome == [st |-> "none", value |-> 0, attributes |-> 0, message |-> ""]

\* Vec::resize that leaves the length as it is
ResizeKeep(v, n, fill) == v

\* Vec::resize(n, fill)
Resize(v, n, fill) ==
    IF n <= Len(v) THEN SubSeq(v, 1, n) ELSE v \o [i \in 1..(n - Len(v)) |-> fill]

\* T::try_from(Vec<u8>) of a variable type of DUMMY_DATA_REPR_SIZE bytes: the
\* u32 of the bytes; a vector of another length is an Err for a type that
\* checks ("Checked") and a failed assert for DummyVariableType ("Dummy")
TryFrom(ty, value) ==
    IF Len(value) = DUMMY_DATA_REPR_SIZE THEN [st |-> "Ok", value |-> LeU32(value, 0)]
    ELSE IF ty = "Dummy" THEN [st |-> "Panic", value |-> 0]
    ELSE [st |-> "Err", value |-> 0]

\* what get_variable_unchecked may answer on a buffer of len bytes; a Success
\* has written data_size bytes to the buffer
Replies(len) ==
    {[kind |-> "Success", data_size |-> n, attributes |-> a, fill |-> f, e |-> ""] :
        n \in {m \in Sizes : m <= len}, a \in Attributes, f \in Fill}
    \cup {[kind |-> "BufferTooSmall", data_size |-> n, attributes |-> a, fill |-> 0, e |-> ""] :
        n \in Sizes, a \in Attributes}
    \cup {[kind |-> "Error", data_size |-> 0, attributes |-> 0, fill |-> 0, e |-> e] :
        e \in Errors}

\* the buffer after the answer
Filled(data, reply) ==
    [i \in 1..Len(data) |->
        IF reply.kind = "Success" /\ i <= reply.data_size THEN reply.fill ELSE data[i]]

\* a call of get_variable about to start, on services that are initialized
InitGetVariable ==
    \E terminated \in BOOLEAN, hint \in Sizes \cup {-1}, ty \in {"Dummy", "Checked"} :
        /\ service = "Runtime"
        /\ efi_services \in Pointers
        /\ user = <<>>
        /\ inits = 1
        /\ replaced = FALSE
        /\ getvar = [pc |-> "start", terminated |-> terminated, size_hint |-> hint, ty |-> ty,
                     data |-> <<>>, first_attempt |-> TRUE, calls |-> <<>>,
                     outcome |-> NoOutcome]
        /\ NoDecompress
        /\ NoMutex

\* runtime_services.rs:106-118: the check of the name, the buffer of
\* size_hint zeros (-1 is None)
GetVariableEnter ==
    /\ getvar.pc = "start"
    /\ getvar' =
          IF ~getvar.terminated
          THEN [getvar EXCEPT !.pc = "done",
                              !.outcome = [NoOutcome EXCEPT !.st = "Panic",
                                  !.message = "Name passed into get_variable is not null-terminated."]]
          ELSE [getvar EXCEPT !.pc = "loop",
                              !.data = IF getvar.size_hint = -1 THEN <<>>
                                       ELSE Resize(<<>>, getvar.size_hint, 0),
                              !.first_attempt = TRUE]
    /\ UNCHANGED <<service, efi_services, user, inits, replaced, mvars, cvars>>

\* runtime_services.rs:119-147: one turn of the loop, get_variable_unchecked
\* and the match on its answer
GetVariableAttempt ==
    /\ getvar.pc = "loop"
    /\ \E reply \in Replies(Len(getvar.data)) :
          \E buf \in {Filled(getvar.data, reply)}, made \in {TryFrom(getvar.ty, Filled(getvar.data, reply))} :
             getvar' =
                [getvar EXCEPT
                    !.calls = Append(@, [len |-> Len(getvar.data), reply |-> reply, data |-> buf]),
                    !.data = IF reply.kind = "BufferTooSmall" /\ getvar.first_attempt
                             THEN Resize(buf, reply.data_size, 10) ELSE buf,
                    !.first_attempt = IF reply.kind = "BufferTooSmall" THEN FALSE ELSE @,
                    !.pc = IF reply.kind = "BufferTooSmall" /\ getvar.first_attempt
                           THEN "loop" ELSE "done",
                    !.outcome =
                        IF reply.kind = "Success"
                        THEN IF made.st = "Ok"
                             THEN [NoOutcome EXCEPT !.st = "Ok", !.value = made.value,
                                                    !.attributes = reply.attributes]
                             ELSE IF made.st = "Err"
                             THEN [NoOutcome EXCEPT !.st = "INVALID_PARAMETER"]
                             ELSE [NoOutcome EXCEPT !.st = "Panic"]
                        ELSE IF reply.kind = "BufferTooSmall"
                        THEN IF getvar.first_attempt THEN NoOutcome
                             ELSE [NoOutcome EXCEPT !.st = "BUFFER_TOO_SMALL"]
                        ELSE [NoOutcome EXCEPT !.st = reply.e]]
    /\ UNCHANGED <<service, efi_services, user, inits, replaced, mvars, cvars>>

NextGetVariable == GetVariableEnter \/ GetVariableAttempt

SpecGetVariable == InitGetVariable /\ [][NextGetVariable]_vars


\* ------------------------------------------------------------------------
\* read_pt_len and read_c_len on their own (lib.rs:187-242, 277-359), called as
\* the start of a block calls them (lib.rs:623-639) on an iterator that is new
\* or that an earlier block has used, then one symbol of the set decoded.

MaxCount == 6
MaxRun == 2

\* the width of the count field of a set
CountBits(set, a) == IF set = "Extra" THEN TBIT ELSE IF set = "Position" THEN AlgoPBit(a) ELSE CBIT

\* a length as read_pt_len expects it: 3 bits, past 6 a run of ones and a zero
EntryBits(v) == IF v < 7 THEN NumBits(v, 3) ELSE <<1, 1, 1>> \o Repeat(1, v - 7) \o <<0>>

\* three lengths, two bits (a zero run when extra is set), one more length
EntryBodies ==
    {EntryBits(e1) \o EntryBits(e2) \o EntryBits(e3) \o NumBits(z, 2) \o EntryBits(e4) :
        e1 \in {0, 2}, e2 \in {0, 2}, e3 \in {0, 2} \cup {7 + r : r \in 0..MaxRun},
        z \in 0..3, e4 \in {0, 2}}

PtSets ==
    {[set |-> "Extra", algo |-> "UefiDecompress"],
     [set |-> "Position", algo |-> "UefiDecompress"],
     [set |-> "Position", algo |-> "TianoDecompress"]}

LenInput(s, bits, prior, c) ==
    [set |-> s.set, algo |-> s.algo, bytes |-> PackBytes(bits) \o Repeat(0, 16),
     prior |-> prior, checks |-> c, entries |-> <<>>]

\* the counts at the ends of the field's range and around the size of the set
EndCounts(s) ==
    {1, Pow2(CountBits(s.set, s.algo)) - 1} \cup (IF s.set = "Extra" THEN {NT, NT + 1} ELSE {})

\* a nonzero count, then lengths; a nonzero count, then lengths that are all zero
CountedInputs ==
    {LenInput(s, NumBits(n, CountBits(s.set, s.algo)) \o body, "new", TRUE) :
        s \in PtSets, n \in 1..MaxCount, body \in EntryBodies}
    \cup UNION {{LenInput(s, NumBits(n, CountBits(s.set, s.algo)), prior, TRUE) :
                    n \in EndCounts(s), prior \in {"new", "used"}} : s \in PtSets}

\* a length of 7 + k, then a length of 1, for k around the limits of the code
\* length and of the u8 that accumulates it
LongRunInputs ==
    {LenInput([set |-> "Extra", algo |-> "UefiDecompress"],
              NumBits(2, TBIT) \o EntryBits(7 + k) \o EntryBits(1), "new", c) :
        k \in {MAX_CODE_LEN - 7, MAX_CODE_LEN - 6, U8 - 8, U8 - 7, U8 - 6}, c \in BOOLEAN}

\* a count of 0, then the one symbol of the set, every value the field can hold
SingleInputs ==
    UNION {{LenInput(s, NumBits(0, CountBits(s.set, s.algo))
                           \o NumBits(v, CountBits(s.set, s.algo)),
                     prior, TRUE) :
               v \in 0..(Pow2(CountBits(s.set, s.algo)) - 1), prior \in {"new", "used"}} :
           s \in PtSets}
    \cup {LenInput([set |-> "CharLen", algo |-> "UefiDecompress"],
                   NumBits(0, TBIT) \o NumBits(0, TBIT) \o NumBits(0, CBIT) \o NumBits(v, CBIT),
                   prior, TRUE) :
             v \in 0..(Pow2(CBIT) - 1), prior \in {"new", "used"}}

\* An Extra Set code with every symbol in it: thirteen codes of 4 bits, six of 5
FullExtraLens == [i \in 0..(NT - 1) |-> IF i <= 12 THEN 4 ELSE 5]
FullExtraBits == SetBits(FullExtraLens, 0..(NT - 1), TBIT, TRUE)

\* one entry of the Char&Length array as it is written: the Extra Set symbol,
\* then the 4 or 9 bits of its argument
CLenEntry(sym, arg) == [sym |-> sym, arg |-> arg]

CLenEntryBits(e) ==
    CodeBits(FullExtraLens, NT, e.sym)
    \o (IF e.sym = 1 THEN NumBits(e.arg, 4)
        ELSE IF e.sym = 2 THEN NumBits(e.arg, CBIT) ELSE <<>>)

RECURSIVE CLenEntriesBits(_, _)
CLenEntriesBits(entries, k) ==
    IF k > Len(entries) THEN <<>>
    ELSE CLenEntryBits(entries[k]) \o CLenEntriesBits(entries, k + 1)

\* the entries used: every kind, zero runs at the ends of their ranges and runs
\* that end at and past the last slot
CLenEntryKinds ==
    {CLenEntry(0, 0), CLenEntry(1, 0), CLenEntry(1, 15), CLenEntry(2, 0),
     CLenEntry(2, NC - 22), CLenEntry(2, Pow2(CBIT) - 1), CLenEntry(3, 0),
     CLenEntry(NT - 1, 0)}

MaxEntries == 2

\* a complete array that fills every slot
FullCLen == <<CLenEntry(3, 0), CLenEntry(3, 0), CLenEntry(2, NC - 22)>>

\* up to MaxEntries entries; the array that fills every slot, alone and with
\* one entry more
CLenSeqs ==
    UNION {Tuples(n, CLenEntryKinds) : n \in 1..MaxEntries}
    \cup {FullCLen} \cup {Append(FullCLen, e) : e \in CLenEntryKinds}

\* the Extra Set, a nonzero count, the entries
CLenInputs ==
    {[set |-> "CharLen", algo |-> "UefiDecompress",
      bytes |-> PackBytes(FullExtraBits \o NumBits(n, CBIT) \o CLenEntriesBits(es, 1))
                \o Repeat(0, 16),
      prior |-> prior, checks |-> TRUE, entries |-> es] :
        n \in {1, 2, 3, NC, NC + 1}, es \in CLenSeqs, prior \in {"new", "used"}}

\* Position Set codes: the symbols used, the lengths a ladder from the first
\* symbol up or from the last symbol up; one symbol alone is a count of 0
PosUsed ==
    {[algo |-> "UefiDecompress", U |-> U] :
        U \in {0..14, {0, 1, 2, 13, 14}, {0}, {1}, {2}, {14}}}
    \cup {[algo |-> "TianoDecompress", U |-> U] :
             U \in {0..16, {0, 1, 2, 29, 30}, {30}}}

\* the lengths 1, 2, ..., k-1, k-1 given to the symbols of U from the last down
DownLadderLens(U, n) ==
    LET k == Cardinality(U)
        rank(u) == Cardinality({t \in U : t >= u})
    IN [i \in 0..(n - 1) |->
           IF i \notin U \/ k = 1 THEN 0
           ELSE IF rank(i) < k THEN rank(i) ELSE k - 1]

PosCodes ==
    {[algo |-> u.algo, U |-> u.U, lens |-> LadderLens(u.U, MAXNP)] : u \in PosUsed}
    \cup {[algo |-> u.algo, U |-> u.U, lens |-> DownLadderLens(u.U, MAXNP)] : u \in PosUsed}

\* the raw bits that follow the code of symbol v: all zero, all one, alternating
Suffixes(v) ==
    IF v <= 1 THEN {0}
    ELSE {0, Pow2(v - 1) - 1, (Pow2(v - 1) - 1) \div 3}

\* the Position Set, the code of one of its symbols, the raw bits, pad bits
PosInputsOf(c) ==
    UNION {{[set |-> "Position", algo |-> c.algo,
             bytes |-> PackBytes(SetBits(c.lens, c.U, AlgoPBit(c.algo), FALSE)
                                 \o CodeBits(c.lens, MAXNP, v)
                                 \o NumBits(x, IF v > 1 THEN v - 1 ELSE 0)
                                 \o Repeat(pad, 16)),
             prior |-> prior, checks |-> TRUE,
             entries |-> <<[sym |-> v, arg |-> x, len |-> c.lens[v]]>>] :
               x \in Suffixes(v), pad \in 0..1, prior \in {"new", "used"}} :
           v \in c.U}

PosInputs == UNION {PosInputsOf(c) : c \in PosCodes}

LenInputs ==
    CountedInputs \cup SingleInputs \cup LongRunInputs \cup CLenInputs \cup PosInputs

\* the iterator the call finds
Prior(used, inp) ==
    IF inp.prior = "new" THEN NewCodeIterator(inp.bytes, inp.algo)
    ELSE [used EXCEPT !.src = inp.bytes, !.p_bit = AlgoPBit(inp.algo)]

InitLen ==
    \E used \in {UsedIterator}, inp \in LenInputs :
        /\ iter = Prior(used, inp)
        /\ call = [set |-> inp.set, algo |-> inp.algo, prior |-> inp.prior, st |-> "none"]
        /\ probe = [st |-> "none", got |-> 0, used |-> 0]
        /\ pc = "read"
        /\ checks = inp.checks
        /\ src = inp.bytes
        /\ dst = <<>>
        /\ algo = inp.algo
        /\ fixture = [syms |-> inp.entries, wellformed |-> FALSE, cut |-> 0]
        /\ result = "none"
        /\ dst_idx = 0
        /\ symbol = NoSymbol
        /\ sym_at = 0
        /\ copy_src = 0
        /\ copy_end = 0
        /\ wr_idx = -1
        /\ rd_idx = -1
        /\ NoMutex
        /\ NoServices

\* lib.rs:623-639: the Extra Set alone, the Extra Set and then the Char&Length
\* Set, or the Position Set alone
ReadCharLen_(t) == IF t.st # "Ok" THEN t ELSE ReadCLen(t.it)

ReadSet(it, set, c) ==
    IF set = "CharLen" THEN Then(ReadPtLen(it, NT, TBIT, TRUE, c), ReadCharLen_)
    ELSE IF set = "Extra" THEN ReadPtLen(it, NT, TBIT, TRUE, c)
    ELSE ReadPtLen(it, MAXNP, it.p_bit, FALSE, c)

\* the lengths of a set
SetLen(it, set) == IF set = "CharLen" THEN it.c_len ELSE it.pt_len

\* one symbol of the set: the lookup, then pop_bits of the symbol's length
\* (lib.rs:292-313, 378-401, 644-680)
Decoded_(q, at, got) == [st |-> q.st, got |-> got, used |-> q.it.src_index - at]

DecodeOfSet_(d, set) ==
    IF d.st # "Ok" THEN [st |-> d.st, got |-> 0, used |-> 0]
    ELSE Then(PopBits(d.it, SetLen(d.it, set)[d.val]),
              LAMBDA q : Decoded_(q, d.it.src_index, d.val))

DecodeOfSet(it, set) == Then(Lookup(it, set), LAMBDA d : DecodeOfSet_(d, set))

ReadLengths ==
    /\ pc = "read"
    /\ \E r \in {ReadSet(iter, call.set, checks)} :
          /\ iter' = r.it
          /\ call' = [call EXCEPT !.st = r.st]
          /\ pc' = IF r.st = "Ok" THEN "decode" ELSE "done"
    /\ UNCHANGED <<probe, dvars>>

DecodeOne ==
    /\ pc = "decode"
    /\ \E d \in {DecodeOfSet(iter, call.set)} : probe' = d
    /\ pc' = "done"
    /\ UNCHANGED <<iter, call, dvars>>

\* decode_position (lib.rs:376-410) after the Position Set has been read
DecodePos ==
    /\ pc = "decode"
    /\ call.set = "Position"
    /\ \E d \in {DecodePosition(iter)} :
          /\ iter' = d.it
          /\ probe' = [st |-> d.st, got |-> d.val, used |-> d.it.src_index - iter.src_index]
    /\ pc' = "position"
    /\ UNCHANGED <<call, dvars>>

NextLen == ReadLengths \/ DecodeOne \/ DecodePos

SpecLen == InitLen /\ [][NextLen]_vars


\* ------------------------------------------------------------------------
\* Properties of decompress_into_with_algo (Spec)

\* the header fields of src, for Len(src) >= 8
CompressedSize == LeU32(src, 0)
OrigSize == LeU32(src, 4)

\* the expansion of the symbol sequence the input was made from
Expected == Expand(fixture.syms, Len(fixture.syms))

\* no byte of dst has been written
Untouched == wr_idx = -1 /\ dst_idx = 0 /\ \A i \in DOMAIN dst : dst[i] = 0

\* C1: for every well-formed stream, either algorithm and a destination of
\* orig_size bytes, the call returns Ok and the destination is the expansion
\* of the encoded symbol sequence.
C1_WellFormedExpands ==
    (pc = "done" /\ fixture.wellformed) =>
        /\ result = "Ok"
        /\ dst = [i \in 0..(DstLen - 1) |-> Expected[i + 1]]

\* C2: when the call returns Ok for a nonzero orig_size, the write index equals
\* len(dst) = orig_size, for valid and for corrupted sources.
C2_OkMeansFull ==
    (result = "Ok" /\ OrigSize # 0) => (dst_idx = DstLen /\ DstLen = OrigSize)

C2_Witness ==
    /\ result = "Ok"
    /\ OrigSize # 0
    /\ ~fixture.wellformed
    /\ DstLen >= 2
    /\ dst_idx = DstLen

\* C3: every index written is below len(dst), and every index a copy reads is
\* below the index it writes.
C3_NoOverrun ==
    /\ -1 <= wr_idx /\ wr_idx < DstLen
    /\ rd_idx # -1 => (0 <= rd_idx /\ rd_idx < wr_idx)

C3_Witness ==
    /\ rd_idx # -1
    /\ wr_idx = DstLen - 1
    /\ rd_idx = wr_idx - 1

\* C4: the call never panics, whatever the source.
C4_NeverPanics == result # "Panic"

\* C5: the header is validated in order: InvalidSrcSize for len(src) < 8 or
\* compressed_size > len(src); otherwise InvalidDstSize for a nonzero orig_size
\* other than len(dst); only after that is any payload bit read.
C5_HeaderOrder ==
    /\ (pc = "done" /\ (Len(src) < 8 \/ CompressedSize > Len(src)))
          => result = "InvalidSrcSize"
    /\ (pc = "done" /\ Len(src) >= 8 /\ CompressedSize <= Len(src)
          /\ OrigSize # 0 /\ OrigSize # DstLen)
          => result = "InvalidDstSize"
    /\ iter.src_index > 0
          => (Len(src) >= 8 /\ CompressedSize <= Len(src) /\ OrigSize = DstLen)

C5_Witness ==
    /\ pc = "done"
    /\ Len(src) >= 8
    /\ CompressedSize > Len(src)
    /\ OrigSize # 0
    /\ OrigSize # DstLen
    /\ result = "InvalidSrcSize"

\* C6 as stated: for every source of at least 8 bytes whose orig_size is 0 the
\* call returns Ok and writes no byte of dst.
C6_ZeroOrigSizeOk ==
    (pc = "done" /\ Len(src) >= 8 /\ OrigSize = 0) => (result = "Ok" /\ Untouched)

\* C6, amended: for every source of at least 8 bytes whose orig_size is 0 and
\* whose compressed_size is at most len(src), and for both algorithms, the call
\* returns Ok at once and writes no byte of dst, whatever bytes follow.
C6_ZeroOrigSizeOkWhenSizeFits ==
    (pc = "done" /\ Len(src) >= 8 /\ OrigSize = 0 /\ CompressedSize <= Len(src))
        => (result = "Ok" /\ Untouched /\ iter.src_index = 0)

C6_Witness ==
    /\ pc = "done"
    /\ Len(src) > 8
    /\ OrigSize = 0
    /\ CompressedSize <= Len(src)
    /\ algo = "TianoDecompress"
    /\ DstLen > 0
    /\ result = "Ok"

\* C7: a back-reference whose distance + 1 exceeds the number of bytes written
\* ends the call with MalformedSrcData, and nothing is copied for it.
C7_OutOfRangeRejected ==
    (symbol.kind = "StrPointer" /\ symbol.offset + 1 > sym_at) =>
        /\ pc \in {"match", "done"}
        /\ dst_idx = sym_at
        /\ wr_idx = sym_at - 1
        /\ pc = "done" => result = "MalformedSrcData"

C7_Witness ==
    /\ pc = "done"
    /\ symbol.kind = "StrPointer"
    /\ symbol.offset + 1 > sym_at
    /\ sym_at > 0
    /\ result = "MalformedSrcData"

\* C8: a back-reference (d, L) decoded at write index p, d + 1 <= p, is copied
\* byte by byte: every byte written at p + i equals the byte at p + i - d - 1,
\* also where the window overlaps the bytes of the same copy, and the copy ends
\* after min(L, len(dst) - p) bytes.
C8_CopyByteAtATime ==
    (symbol.kind = "StrPointer" /\ symbol.offset + 1 <= sym_at) =>
        /\ \A j \in sym_at..(dst_idx - 1) : dst[j] = dst[j - symbol.offset - 1]
        /\ pc \in {"next", "done"} => dst_idx = sym_at + Min(symbol.len, DstLen - sym_at)

\* 'A', then (distance 0, length 5): "AAAAAA"
C8_Witness ==
    /\ pc = "done"
    /\ result = "Ok"
    /\ symbol = StrPointer(0, 5)
    /\ sym_at = 1
    /\ dst = [i \in 0..5 |-> 65]

\* ------------------------------------------------------------------------
\* Properties of build_huffman_table (SpecHuff)

\* the part of the 16-bit code space the codes of a length array take
RECURSIVE Kraft(_, _)
Kraft(lens, i) ==
    IF i = 0 THEN 0
    ELSE Kraft(lens, i - 1)
         + (IF lens[i] = 0 \/ lens[i] > MAX_CODE_LEN THEN 0 ELSE Pow2(16 - lens[i]))

\* the codes cover the code space exactly once
Complete(lens) ==
    /\ \A i \in 1..Len(lens) : lens[i] <= MAX_CODE_LEN
    /\ Kraft(lens, Len(lens)) = U16

\* C9: for a complete length array the build succeeds, and the lookup (fixed
\* table, then the left/right walk) of every canonical codeword gives the
\* symbol the codeword belongs to.
C9_CompleteDecodes ==
    (pc # "build" /\ Complete(call.lens)) =>
        /\ call.st = "Ok"
        /\ probe.sym # -1 => (probe.st = "Ok" /\ probe.got = probe.sym)

\* a code longer than the fixed table, found by the walk
C9_Witness ==
    /\ Complete(call.lens)
    /\ call.st = "Ok"
    /\ probe.sym # -1
    /\ call.lens[probe.sym + 1] = MAX_CODE_LEN
    /\ probe.got = probe.sym

\* C10: every length array that is incomplete or over-subscribed is rejected
\* with MalformedSrcData.
C10_IncompleteRejected ==
    (pc # "build" /\ ~Complete(call.lens)) => call.st = "MalformedSrcData"

\* the fixed table of a set
TableOf(it, set) == IF set = "CharLen" THEN it.c_table ELSE it.pt_table

\* from the table or node value v a leaf below n is reached along every
\* sequence of at most fuel bits
RECURSIVE Reach(_, _, _, _, _)
Reach(v, fuel, n, left, right) ==
    \/ v < n
    \/ /\ fuel > 0
       /\ v < NODES
       /\ Reach(left[v], fuel - 1, n, left, right)
       /\ Reach(right[v], fuel - 1, n, left, right)

\* the values an array holds after a step where it held another value before
Written(before, after) == {after[i] : i \in {j \in DOMAIN after : after[j] # before[j]}}

\* C23: after a build_huffman_table call that returns Ok, every node id the
\* call created (a value not below num_symbols that it wrote) is in
\* [num_symbols, 2 * num_symbols - 1), and every lookup, from whichever entry
\* of the fixed table, reaches a leaf id below num_symbols after at most 16
\* bits, the bits of the table index included.
C23_TableWellFormed ==
    [][(pc = "build" /\ call'.st = "Ok") =>
          /\ \A v \in Written(TableOf(iter, call.set), TableOf(iter', call.set))
                      \cup Written(iter.left, iter'.left)
                      \cup Written(iter.right, iter'.right) :
                 v < 2 * NumSymbols(call.set) - 1
          /\ \A i \in DOMAIN TableOf(iter', call.set) :
                 Reach(TableOf(iter', call.set)[i], MAX_CODE_LEN - TableBits(call.set),
                       NumSymbols(call.set), iter'.left, iter'.right)]_vars

\* the node ids a lookup can pass from the table or node value v
RECURSIVE NodesFrom(_, _, _, _, _)
NodesFrom(v, fuel, n, left, right) ==
    IF v < n \/ v >= NODES \/ fuel = 0 THEN {}
    ELSE {v} \cup NodesFrom(left[v], fuel - 1, n, left, right)
             \cup NodesFrom(right[v], fuel - 1, n, left, right)

\* the left/right entries the Char&Length table uses
CNodes(it) ==
    UNION {NodesFrom(v, MAX_CODE_LEN - CTABLE_BITSIZE, NC, it.left, it.right) :
              v \in {it.c_table[i] : i \in DOMAIN it.c_table}}

\* C24: building the Position Set table changes no left/right entry that the
\* Char&Length table built before it uses, and not the Char&Length table, so
\* that Char&Length lookups give the same symbols afterwards.
C24_PositionBuildFrame ==
    [][(pc = "build" /\ call.set = "Position") =>
          /\ iter'.c_table = iter.c_table
          /\ \A v \in CNodes(iter) :
                 iter'.left[v] = iter.left[v] /\ iter'.right[v] = iter.right[v]]_vars

\* ------------------------------------------------------------------------
\* Further properties of decompress_into_with_algo (Spec)

\* C11: a well-formed stream with nonzero orig_size, its final byte removed,
\* makes the call return MalformedSrcData or InvalidSrcSize, never Ok.
C11_TruncatedRejected ==
    (pc = "done" /\ fixture.cut = 1 /\ OrigSize # 0)
        => result \in {"MalformedSrcData", "InvalidSrcSize"}

\* C12: the call terminates: every iteration of the symbol loop that does not
\* end the call has written at least one byte, no table-reading or walking
\* loop runs on without end, and the call reaches its end.
C12_Terminates ==
    /\ [](result # "Diverges")
    /\ []((pc = "next" /\ symbol # NoSymbol) => dst_idx > sym_at)
    /\ <>(pc = "done")

\* three iterations of the symbol loop, the last a copy that fills dst
C12_Witness ==
    /\ pc = "done"
    /\ Len(fixture.syms) = 3
    /\ symbol.kind = "StrPointer"
    /\ dst_idx = DstLen
    /\ dst_idx > sym_at

\* the widest field the properties pop
MaxPop == 16

\* the value of n bits from bit at on, the first bit the most significant
RECURSIVE MsbValue(_, _, _)
MsbValue(bytes, at, n) ==
    IF n = 0 THEN 0 ELSE BitOf(bytes, at) * Pow2(n - 1) + MsbValue(bytes, at + 1, n - 1)

\* pop_bits(n) on the iterator it, as the claim describes it
PopsAsStated(it, n) ==
    \E r \in {PopBits(it, n)} :
        IF n <= 8 * Len(it.src) - it.src_index
        THEN /\ r.st = "Ok"
             /\ r.val = MsbValue(it.src, it.src_index, n)
             /\ r.it = [it EXCEPT !.src_index = it.src_index + n]
        ELSE /\ r.st = "MalformedSrcData"
             /\ r.it = it

\* peek_bits(n): the same bits or the same error, nothing changed
PeeksAsStated(it, n) ==
    \E r \in {PeekBits(it, n)} :
        /\ r.it = it
        /\ IF n <= 8 * Len(it.src) - it.src_index
           THEN r.st = "Ok" /\ r.val = MsbValue(it.src, it.src_index, n)
           ELSE r.st = "MalformedSrcData"

\* C25: in every state of a call the bit cursor is within 0..total bits of the
\* payload and no step moves it back; pop_bits(n) gives the next n bits, the
\* first the most significant, and moves the cursor by exactly n when n bits
\* remain, and is MalformedSrcData with the cursor where it was otherwise;
\* peek_bits does not move the cursor.
C25_BitCursor ==
    /\ [](/\ 0 <= iter.src_index /\ iter.src_index <= 8 * Len(iter.src)
          /\ \A n \in 0..MaxPop : PopsAsStated(iter, n) /\ PeeksAsStated(iter, n))
    /\ [][iter'.src_index >= iter.src_index]_vars

\* a call that has read part of its payload and has fewer than MaxPop bits left
C25_Witness ==
    /\ pc = "done"
    /\ result = "Ok"
    /\ iter.src_index > MaxPop
    /\ 8 * Len(iter.src) - iter.src_index \in 1..(MaxPop - 1)

\* C26: compressed_size is only compared with len(src): a second call on a
\* source that differs from the first in compressed_size alone, both values
\* passing the check, returns what the first returned, writes the same bytes
\* and reads the same number of payload bits, which may lie past
\* compressed_size.
C26_SizeOnlyChecked ==
    (pc = "done" /\ call.set = "first") =>
        /\ result = call.st
        /\ dst = call.dst
        /\ iter.src_index = call.used

\* a stream decoded in full although its compressed_size covers the header only
C26_Witness ==
    /\ pc = "done"
    /\ call.set = "first"
    /\ CompressedSize = 8
    /\ result = "Ok"
    /\ fixture.wellformed
    /\ iter.src_index > 8 * (CompressedSize - 8)
    /\ dst_idx = DstLen
    /\ DstLen > 2

\* C16: of a block whose header gives the symbol count N, for every N in
\* 0..65535, exactly N coded symbols are decoded: a step that decodes a coded
\* symbol leaves remaining_block_size one less than it was (N, when the step
\* began the block), and remaining_block_size is never decremented below zero,
\* so that a block of 0 symbols decodes none and stops nothing.
C16_CountedSymbols ==
    [][pc = "next" =>
          \E b \in {IF iter.remaining_block_size = 0 THEN StartBlock(iter, checks)
                     ELSE Ok(iter, 0)} :
              b.st = "Ok" =>
                  /\ pc' = "match" =>
                         iter'.remaining_block_size = b.it.remaining_block_size - 1
                  /\ b.it.remaining_block_size = 0 => (pc' # "match" /\ result' # "Panic")]_vars

\* ------------------------------------------------------------------------
\* Properties of TplMutex (SpecMutex)

\* C13: at most one guard exists at any time, whatever the interleaving of the
\* callers: a try_lock whose compare_exchange runs while a guard is alive
\* returns Err(()), and one that runs when no guard is alive (the earlier
\* guard dropped, no other caller about to get its guard) returns Ok.
C13_OneGuard ==
    /\ GuardCount <= 1
    /\ \A c \in Callers :
          (caller[c].op = "try_lock" /\ caller[c].cas.alive > 0)
              => caller[c].outcome = "Err"
    /\ \A c \in Callers :
          (caller[c].op = "try_lock" /\ caller[c].cas.quiet /\ caller[c].pc # "raise")
              => caller[c].outcome = "Ok"

\* a guard was dropped; one caller holds the guard its try_lock returned after
\* that, another caller's try_lock met that guard and got Err(())
C13_Witness ==
    /\ dropped
    /\ GuardCount = 1
    /\ \E c \in Callers, d \in Callers :
          /\ c # d
          /\ caller[c].op = "try_lock" /\ caller[c].outcome = "Ok"
          /\ Len(caller[c].held) = 1
          /\ caller[d].op = "try_lock" /\ caller[d].outcome = "Err"
          /\ caller[d].cas.alive = 1

\* C14: lock on a mutex that is locked panics, the message carrying
\* "Re-entrant lock"; the call is over with the panic (it waits for nothing)
\* and the caller has no more guards than before the call.
C14_LockPanics ==
    \A c \in Callers :
        (caller[c].op = "lock" /\ caller[c].cas.locked)
            => /\ caller[c].outcome = "Panic"
               /\ caller[c].message.value = "Re-entrant lock"
               /\ caller[c].pc # "raise"
               /\ Len(caller[c].held) <= caller[c].cas.own
               /\ GuardCount <= 1

\* the caller that holds the guard calls lock again and panics
C14_Witness ==
    \E c \in Callers :
        /\ caller[c].op = "lock"
        /\ caller[c].cas.locked
        /\ caller[c].cas.own = 1
        /\ caller[c].outcome = "Panic"
        /\ Len(caller[c].held) = 1

\* the steps of caller c: a is its position before the step, b after it
Moves(c, a, b) == caller[c].pc = a /\ caller'[c].pc = b

\* a try_lock of caller c that returns Err(())
FailsTryLock(c) ==
    /\ Moves(c, "idle", "idle")
    /\ caller'[c] # caller[c]
    /\ caller'[c].op = "try_lock"
    /\ caller'[c].outcome = "Err"

\* C27: a successful try_lock sets the flag, then calls
\* raise_tpl(tpl_lock_level) once and keeps the level it returns in the guard;
\* the drop of the guard calls restore_tpl once with that level and then
\* clears the flag; a failing try_lock calls neither raise_tpl nor restore_tpl
\* and leaves the flag set; the level changes in no other step.
C27_TplCalls ==
    [][/\ \A c \in Callers :
             /\ Moves(c, "idle", "raise") =>
                   /\ ~lock /\ lock'
                   /\ tpl' = tpl
                   /\ caller'[c].held = caller[c].held
             /\ Moves(c, "raise", "idle") =>
                   /\ tpl' = tpl_lock_level
                   /\ caller'[c].held = Append(caller[c].held, tpl)
                   /\ caller'[c].outcome = "Ok"
                   /\ lock /\ lock'
             /\ Moves(c, "idle", "store") =>
                   /\ tpl' = caller[c].held[Len(caller[c].held)]
                   /\ caller'[c].held = caller[c].held
                   /\ lock' = lock
             /\ Moves(c, "store", "idle") =>
                   /\ tpl' = tpl
                   /\ caller'[c].held = SubSeq(caller[c].held, 1, Len(caller[c].held) - 1)
                   /\ ~lock'
             /\ FailsTryLock(c) =>
                   /\ tpl' = tpl
                   /\ lock /\ lock'
                   /\ caller'[c].held = caller[c].held
       /\ tpl' # tpl =>
             \E c \in Callers : Moves(c, "raise", "idle") \/ Moves(c, "idle", "store")]_vars

\* a guard made at a level above the one the caller was at has been dropped
\* and the level is back; another caller's try_lock met the guard and failed
C27_Witness ==
    /\ dropped
    /\ ~lock
    /\ GuardCount = 0
    /\ tpl = "APPLICATION"
    /\ tpl_lock_level = "NOTIFY"
    /\ \E c \in Callers, d \in Callers :
          /\ c # d
          /\ caller[c].op = "try_lock" /\ caller[c].outcome = "Ok" /\ caller[c].pc = "idle"
          /\ caller[d].op = "try_lock" /\ caller[d].outcome = "Err"
          /\ caller[d].cas.locked

\* the numeric value of a task priority level
TplValue(t) ==
    IF t = "APPLICATION" THEN 4 ELSE IF t = "CALLBACK" THEN 8 ELSE 16

\* C30: whenever the lock flag is set the current TPL is at least
\* tpl_lock_level, between the steps of try_lock and of the drop of the guard
\* too, so that a callback at or below tpl_lock_level, which can only run when
\* the current TPL is below its own, never finds the mutex locked.
C30_LockedAtLockLevel ==
    lock => TplValue(tpl) >= TplValue(tpl_lock_level)

\* C29: the lookup of a coded symbol peeks the whole width of the set's table
\* (12 bits for Char&Length, 8 for the Extra Set and the Position Set): with
\* fewer unread bits it is MalformedSrcData although the code fits in them,
\* and it is Ok only with at least that many.
C29_LookAhead ==
    pc = "tail" =>
        /\ probe.room < TableBits(call.set) => probe.st = "MalformedSrcData"
        /\ probe.st = "Ok" => probe.room >= TableBits(call.set)
        /\ (probe.room >= TableBits(call.set) /\ Complete(call.lens)) =>
              probe.st = "Ok" /\ probe.got = probe.of

\* a Char&Length code of one bit with eleven bits unread is refused
C29_Witness ==
    /\ pc = "tail"
    /\ call.set = "CharLen"
    /\ call.st = "Ok"
    /\ call.lens[probe.of + 1] = 1
    /\ probe.room = CTABLE_BITSIZE - 1
    /\ probe.st = "MalformedSrcData"

\* ------------------------------------------------------------------------
\* Properties of get_variable (SpecGetVariable)

\* the answers get_variable has had, the last of them
Attempts == Len(getvar.calls)
LastCall == getvar.calls[Attempts]

\* the parts of C28 about the number of calls, the retry and the errors
GetVariableRetries ==
    /\ Attempts <= 2
    /\ Attempts = 2 =>
          /\ getvar.calls[1].reply.kind = "BufferTooSmall"
          /\ getvar.calls[2].len = getvar.calls[1].reply.data_size
    /\ (getvar.pc = "loop" /\ Attempts = 1) => getvar.calls[1].reply.kind = "BufferTooSmall"
    /\ (getvar.pc = "done" /\ Attempts >= 1) =>
          /\ LastCall.reply.kind = "BufferTooSmall" =>
                Attempts = 2 /\ getvar.outcome.st = "BUFFER_TOO_SMALL"
          /\ LastCall.reply.kind = "Error" => getvar.outcome.st = LastCall.reply.e

\* the data of a Success, converted
Converted ==
    /\ getvar.outcome.st = "Ok"
    /\ getvar.outcome.value = LeU32(LastCall.data, 0)
    /\ getvar.outcome.attributes = LastCall.reply.attributes

\* C28: get_variable calls get_variable_unchecked at most twice, the second
\* time only after a BufferTooSmall and on a buffer of the data_size that
\* answer reported; a second BufferTooSmall gives Err(BUFFER_TOO_SMALL), an
\* Error gives that status, and a Success gives the converted data with the
\* attributes.
C28_GetVariable ==
    /\ GetVariableRetries
    /\ (getvar.pc = "done" /\ Attempts >= 1 /\ LastCall.reply.kind = "Success") => Converted

\* C28 as amended: a Success gives the converted data with the attributes when
\* the buffer has the length of the variable type; when it has not, the
\* failure of T::try_from decides: Err(INVALID_PARAMETER) for an Err, a panic
\* for a panic.
C28_GetVariableWhenConvertible ==
    /\ GetVariableRetries
    /\ (getvar.pc = "done" /\ Attempts >= 1 /\ LastCall.reply.kind = "Success") =>
          IF Len(LastCall.data) = DUMMY_DATA_REPR_SIZE THEN Converted
          ELSE IF getvar.ty = "Checked" THEN getvar.outcome.st = "INVALID_PARAMETER"
          ELSE getvar.outcome.st = "Panic"

\* a size hint of one byte, BufferTooSmall with the size of the variable, then
\* Success on the buffer resized: the variable and its attributes
C28_Witness ==
    /\ getvar.pc = "done"
    /\ getvar.size_hint = 1
    /\ Attempts = 2
    /\ getvar.calls[1].reply.data_size = DUMMY_DATA_REPR_SIZE
    /\ LastCall.reply.kind = "Success"
    /\ LastCall.reply.data_size = DUMMY_DATA_REPR_SIZE
    /\ LastCall.reply.fill = 2
    /\ getvar.outcome = [NoOutcome EXCEPT !.st = "Ok", !.value = 33686018, !.attributes = 7]

\* ------------------------------------------------------------------------
\* Properties of the services structs (SpecServices)

\* C15: a struct made by new_uninit is initialized at most once: a use before
\* initialize panics, at most one initialize call returns, and the pointer,
\* once set, is never replaced, whatever the interleaving of the callers.
C15_InitializedOnce ==
    /\ \A c \in Callers :
          (user[c].op = "use" /\ user[c].outcome = "Ok") => user[c].got # Null
    /\ inits <= 1
    /\ ~replaced

\* ------------------------------------------------------------------------
\* Properties of the length arrays (SpecLen)

\* where the count field of the set is: the Char&Length Set follows an Extra
\* Set of count 0 and symbol 0
FieldAt(set) == IF set = "CharLen" THEN 2 * TBIT ELSE 0

CountField == LoadBe(src, FieldAt(call.set), CountBits(call.set, call.algo))

\* the field after a count of 0
Implicit ==
    LoadBe(src, FieldAt(call.set) + CountBits(call.set, call.algo),
           CountBits(call.set, call.algo))

\* the number of 1-bits from bit at on, up to the first 0-bit
RefRun(bytes, at) ==
    CHOOSE k \in 0..(8 * Len(bytes) - at) :
        /\ \A i \in 0..(k - 1) : BitOf(bytes, at + i) = 1
        /\ at + k = 8 * Len(bytes) \/ BitOf(bytes, at + k) = 0

\* the length array as the format gives it, lengths not limited in size
RECURSIVE RefEntries(_, _, _, _, _, _)
RefEntries(bytes, at, idx, count, extra, lens) ==
    IF idx >= count THEN [lens |-> lens, idx |-> idx, short |-> FALSE]
    ELSE IF at + 5 > 8 * Len(bytes) THEN [lens |-> lens, idx |-> idx, short |-> TRUE]
    ELSE LET v == LoadBe(bytes, at, 3)
             k == IF v = 7 THEN RefRun(bytes, at + 3) ELSE 0
             after == at + 3 + (IF v = 7 THEN k + 1 ELSE 0)
             third == extra /\ idx + 1 = 3
         IN IF after + 2 > 8 * Len(bytes) THEN [lens |-> lens, idx |-> idx, short |-> TRUE]
            ELSE LET run == IF third THEN LoadBe(bytes, after, 2) ELSE 0
                 IN RefEntries(bytes, after + (IF third THEN 2 ELSE 0), idx + 1 + run,
                               count, extra,
                               [i \in DOMAIN lens |->
                                   IF i = idx THEN v + k
                                   ELSE IF idx < i /\ i <= idx + run THEN 0
                                   ELSE lens[i]])

RefPtLen ==
    RefEntries(src, CountBits(call.set, call.algo), 0, CountField, call.set = "Extra",
               [i \in 0..NPT |-> 0])

\* the symbol a new iterator decodes from the same bits
FreshDecode_(r, set) ==
    IF r.st # "Ok" THEN [st |-> r.st, got |-> 0, used |-> 0] ELSE DecodeOfSet(r.it, set)

FreshDecode ==
    Then(ReadSet(NewCodeIterator(src, call.algo), call.set, checks),
         LAMBDA r : FreshDecode_(r, call.set))

\* C17: the tables of a block are rebuilt entirely from the block's length
\* arrays: the symbol decoded after them is the one a new iterator decodes
\* from the same bits, whatever tables an earlier block left behind.
C17_TablesRebuilt ==
    (pc = "done" /\ call.st = "Ok") => probe = FreshDecode

\* C18: a length array with a code length greater than 16 yields
\* MalformedSrcData: in read_pt_len for a 3-bit value 7 followed by k one-bits
\* and a zero-bit, for every k >= 10, those k included that take the length
\* past 255.
C18_LongLengthRejected ==
    (pc # "read" /\ call.set # "CharLen" /\ CountField # 0) =>
        \E ref \in {RefPtLen} :
            (~ref.short /\ \E i \in 0..NPT : ref.lens[i] > MAX_CODE_LEN)
                => call.st = "MalformedSrcData"

\* C19: read_pt_len with a nonzero count: each entry is a 3-bit value, a 7
\* grows by one for every 1-bit up to the first 0-bit; with extra set, and only
\* then, a 2-bit zero run follows the third entry and counts toward count; the
\* entries stop when the index reaches count, the slots from there to
\* num_symbols are zero, a final index past num_symbols is MalformedSrcData.
C19_PtLenFormat ==
    (pc # "read" /\ call.set # "CharLen" /\ CountField # 0) =>
        \E ref \in {RefPtLen} :
            ~ref.short =>
                /\ ref.idx > NumSymbols(call.set) => call.st = "MalformedSrcData"
                /\ ref.idx <= NumSymbols(call.set) =>
                      \A i \in 0..(NumSymbols(call.set) - 1) : iter.pt_len[i] = ref.lens[i]

\* C20: after a count field of 0 the next field of the same width is the one
\* symbol of the set: for every value of that field, a symbol of the set
\* decoded in the block is that value and takes no bits.
C20_SingleSymbol ==
    (pc = "done" /\ CountField = 0 /\ call.st = "Ok") =>
        /\ probe.st = "Ok"
        /\ probe.got = Implicit
        /\ probe.used = 0

\* the count field of a Char&Length array that follows the full Extra Set
CLenCount == LoadBe(src, Len(FullExtraBits), CBIT)

\* the Char&Length array as the format gives it: the entries taken in turn
\* until the index reaches count; over when an entry falls at index NC or
\* above, short when the entries end before the index reaches count
RECURSIVE RefCLen(_, _, _, _, _)
RefCLen(entries, k, idx, count, lens) ==
    IF idx >= count THEN [lens |-> lens, over |-> FALSE, short |-> FALSE]
    ELSE IF k > Len(entries) THEN [lens |-> lens, over |-> FALSE, short |-> TRUE]
    ELSE LET e == entries[k]
             run == IF e.sym = 0 THEN 1
                    ELSE IF e.sym = 1 THEN e.arg + 3
                    ELSE IF e.sym = 2 THEN e.arg + 20
                    ELSE 1
             len == IF e.sym <= 2 THEN 0 ELSE e.sym - 2
         IN IF idx + run > NC THEN [lens |-> lens, over |-> TRUE, short |-> FALSE]
            ELSE RefCLen(entries, k + 1, idx + run, count,
                         [i \in DOMAIN lens |->
                             IF idx <= i /\ i < idx + run THEN len ELSE lens[i]])

RefCLenOfInput == RefCLen(fixture.syms, 1, 0, CLenCount, [i \in 0..(NC - 1) |-> 0])

\* the part of the 16-bit code space the codes of lens[lo..hi-1] take
RECURSIVE KraftOf(_, _, _)
KraftOf(lens, lo, hi) ==
    IF lo >= hi THEN 0
    ELSE IF hi = lo + 1 THEN (IF lens[lo] = 0 THEN 0 ELSE Pow2(16 - lens[lo]))
    ELSE KraftOf(lens, lo, (lo + hi) \div 2) + KraftOf(lens, (lo + hi) \div 2, hi)

\* C21: read_c_len with a nonzero 9-bit count takes Extra Set symbols until the
\* index reaches count: symbol 0 is one zero length, symbol 1 is (next 4 bits)
\* + 3 zero lengths, symbol 2 is (next 9 bits) + 20 zero lengths, any other
\* symbol v is the length v - 2; the slots from there to 510 are zero; an entry
\* that would fall at index 510 or above is MalformedSrcData (so that a call
\* on a complete array is Ok exactly when no entry falls there).
C21_CLenFormat ==
    (pc # "read" /\ call.set = "CharLen" /\ fixture.syms # <<>>) =>
        \E ref \in {RefCLenOfInput} :
            ~ref.short =>
                /\ ref.over => call.st = "MalformedSrcData"
                /\ ~ref.over =>
                      /\ iter.c_len = ref.lens
                      /\ KraftOf(ref.lens, 0, NC) = U16 => call.st = "Ok"

\* two lengths of 1 and a zero run that ends at the last slot, count 510
C21_Witness ==
    /\ pc = "done"
    /\ call.prior = "used"
    /\ fixture.syms = FullCLen
    /\ CLenCount = NC
    /\ call.st = "Ok"
    /\ iter.c_len[0] = 1 /\ iter.c_len[1] = 1 /\ iter.c_len[NC - 1] = 0

\* the symbol, raw bits and code length the Position Set input was made from
PosMade == fixture.syms[1]

\* C22: decode_position decodes one Position Set symbol v, moves the cursor by
\* that symbol's own code length pt_len[v] and only then reads the raw bits:
\* it returns v when v <= 1, otherwise 2^(v-1) plus the value of the next
\* v - 1 bits.
C22_PositionValue ==
    (pc = "position" /\ fixture.syms # <<>>) =>
        /\ probe.st = "Ok"
        /\ iter.pt_len[PosMade.sym] = PosMade.len
        /\ probe.got = IF PosMade.sym <= 1 THEN PosMade.sym
                       ELSE Pow2(PosMade.sym - 1) + PosMade.arg
        /\ probe.used = PosMade.len + (IF PosMade.sym > 1 THEN PosMade.sym - 1 ELSE 0)

\* symbol 30 with a code of 4 bits and 29 raw bits, over tables an earlier
\* block has used
C22_Witness ==
    /\ pc = "position"
    /\ fixture.syms # <<>>
    /\ call.prior = "used"
    /\ PosMade.sym = MAXNP - 1
    /\ PosMade.len = 4
    /\ PosMade.arg = (Pow2(MAXNP - 2) - 1) \div 3
    /\ probe.got = Pow2(MAXNP - 2) + PosMade.arg
    /\ probe.used = 4 + MAXNP - 2

====
